---- MODULE Spec2Model ----
(***************************************************************************)
(* The workflow execution engine of api/services/workflow/executor.go:     *)
(* ExecuteWorkflow and the breadth-first loop of executeWorkflowSteps,     *)
(* with the node handlers it dispatches to.                                *)
(*                                                                         *)
(* Go values are dynamically typed (interface{}); a value is modelled as   *)
(* a record [t, n, s, m]: its dynamic type, its number (temperatures are   *)
(* in tenths of a degree), its string and, for a map, its entries.  A nil  *)
(* pointer is the empty sequence None, a non-nil pointer to x is Some(x).  *)
(* A Go map is a function whose DOMAIN is the set of its keys.  A string   *)
(* with placeholders (a template, a URL) is a sequence of tokens.          *)
(***************************************************************************)
EXTENDS Integers, Sequences, FiniteSets, TLC

VARIABLES
    workflow,     \* the api.Workflow handed to executeWorkflowSteps
    input,        \* the api.WorkflowExecutionInput as the caller built it
    pc,           \* position of the execution
    executeVars,  \* the shared variable context
    visited,      \* ids already dequeued once
    queue,        \* FIFO of node ids
    steps,        \* the execution steps appended so far
    result,       \* what ExecuteWorkflow returned: its status and its steps
    ctxCanceled,  \* the caller's context has been canceled
    log           \* per handled node: the context before and after its handler,
                  \* the edges followed, the request sent, what the handler
                  \* returned and what the network answered (history, not
                  \* program state)

vars == <<workflow, input, pc, executeVars, visited, queue, steps, result,
          ctxCanceled, log>>

----------------------------------------------------------------------------
(* Values, pointers, maps *)

None == <<>>
Some(x) == <<x>>
IsNil(p) == Len(p) = 0
Deref(p) == p[1]

F(n) == [t |-> "float64", n |-> n, s |-> "", m |-> <<>>]
F32(n) == [t |-> "float32", n |-> n, s |-> "", m |-> <<>>]
I(n) == [t |-> "int", n |-> n, s |-> "", m |-> <<>>]
Num(n) == [t |-> "json.Number", n |-> n, s |-> "", m |-> <<>>]
S(str) == [t |-> "string", n |-> 0, s |-> str, m |-> <<>>]
B(b) == [t |-> "bool", n |-> IF b THEN 1 ELSE 0, s |-> "", m |-> <<>>]
Null == [t |-> "nil", n |-> 0, s |-> "", m |-> <<>>]
M(map) == [t |-> "map", n |-> 0, s |-> "", m |-> map]

EmptyMap == <<>>
Has(m, k) == k \in DOMAIN m
Put(m, k, v) == [x \in (DOMAIN m) \cup {k} |-> IF x = k THEN v ELSE m[x]]
\* for k, v := range src { dst[k] = v }
Merge(dst, src) ==
    [x \in (DOMAIN dst) \cup (DOMAIN src) |-> IF x \in DOMAIN src THEN src[x] ELSE dst[x]]

\* v, ok := m[k].(bool): ok only when the key is there with a bool in it;
\* the value is false when it is not.
AsBool(m, k) == Has(m, k) /\ m[k].t = "bool" /\ m[k].n = 1
\* No value is taken for a bool.
IsBoolNever(m, k) == FALSE
IsBool(m, k) == Has(m, k) /\ m[k].t = "bool"
\* An int is taken for a float64.
IsFloatOrInt(m, k) == Has(m, k) /\ m[k].t \in {"float64", "int"}
IsFloat(m, k) == Has(m, k) /\ m[k].t = "float64"

RECURSIVE SeqToSet(_)
SeqToSet(sq) == IF sq = <<>> THEN {} ELSE {Head(sq)} \cup SeqToSet(Tail(sq))

----------------------------------------------------------------------------
(* The graph model *)

Node(id, type, meta) == [id |-> id, type |-> type, meta |-> meta]
Edge(src, tgt, handle) == [source |-> src, target |-> tgt, sourceHandle |-> handle]

\* nodeMap: the last node of the list with a given id wins.
RECURSIVE NodeMapOf(_, _)
NodeMapOf(nodes, acc) ==
    IF nodes = <<>> THEN acc
    ELSE NodeMapOf(Tail(nodes), Put(acc, Head(nodes).id, Head(nodes)))

nodeMap(wf) ==
    IF IsNil(wf.nodes) THEN EmptyMap ELSE NodeMapOf(Deref(wf.nodes), EmptyMap)

\* adjacencyList[id]: the edges whose source is id, in list order.
adjacencyList(wf, id) ==
    IF IsNil(wf.edges) THEN <<>>
    ELSE SelectSeq(Deref(wf.edges), LAMBDA e : e.source = id)

\* The id of the first node of type start, "" when there is none.
RECURSIVE FirstStart(_)
FirstStart(nodes) ==
    IF nodes = <<>> THEN ""
    ELSE IF Head(nodes).type = "start" THEN Head(nodes).id
    ELSE FirstStart(Tail(nodes))

----------------------------------------------------------------------------
(* Metadata values and templates *)

List(items) == [kind |-> "list", items |-> items]
Str(toks) == [kind |-> "string", toks |-> toks]
Obj(m) == [kind |-> "object", obj |-> m]

Lit(s) == [ph |-> FALSE, s |-> s]
Ph(name) == [ph |-> TRUE, s |-> name]

\* The names of a metadata list: elements that are not strings are skipped.
StringItems(items) == SelectSeq(items, LAMBDA v : v.t = "string")

\* The value is printed as the name of its type.
SprintType(v) == v.t

\* fmt.Sprintf("%v", value): a number in tenths prints with its decimal
\* point, without it when the fraction is zero.
Sprint(v) ==
    CASE v.t = "string" -> v.s
      [] v.t \in {"float64", "float32", "json.Number"} ->
            IF v.n % 10 = 0 THEN ToString(v.n \div 10)
            ELSE ToString(v.n \div 10) \o "." \o ToString(v.n % 10)
      [] v.t = "bool" -> IF v.n = 1 THEN "true" ELSE "false"
      [] v.t = "nil" -> "<nil>"
      [] OTHER -> "map[]"

\* A placeholder whose name is no key is removed from the text.
ReplaceAllDropsUnmatched(toks, m) ==
    [i \in DOMAIN toks |->
        IF toks[i].ph
        THEN IF Has(m, toks[i].s) THEN Lit(Sprint(m[toks[i].s])) ELSE Lit("")
        ELSE toks[i]]

\* No placeholder is replaced.
ReplaceAllKeepsPlaceholders(toks, m) == toks

\* strings.ReplaceAll for every key of m: a placeholder whose name is a key
\* becomes the printed value, every other token stays.
ReplaceAll(toks, m) ==
    [i \in DOMAIN toks |->
        IF toks[i].ph /\ Has(m, toks[i].s) THEN Lit(Sprint(m[toks[i].s])) ELSE toks[i]]

Outcome(err, output, call) == [err |-> err, output |-> output, call |-> call]

----------------------------------------------------------------------------
(* processFormNode *)

\* A name that the context lacks is dropped.
RECURSIVE CopyNamedPresent(_, _, _)
CopyNamedPresent(names, executeVarsArg, output) ==
    IF names = <<>> THEN output
    ELSE CopyNamedPresent(Tail(names), executeVarsArg,
            IF Has(executeVarsArg, Head(names).s)
            THEN Put(output, Head(names).s, executeVarsArg[Head(names).s])
            ELSE output)

RECURSIVE CopyNamed(_, _, _)
CopyNamed(names, executeVarsArg, output) ==
    IF names = <<>> THEN output
    ELSE CopyNamed(Tail(names), executeVarsArg,
            Put(output, Head(names).s,
                IF Has(executeVarsArg, Head(names).s) THEN executeVarsArg[Head(names).s]
                ELSE Null))

\* Nothing is copied to the output.
processFormNodeCopiesNothing(node, executeVarsArg) == Outcome("", EmptyMap, None)

processFormNode(node, executeVarsArg) ==
    IF IsNil(node.meta) THEN Outcome("", executeVarsArg, None)
    ELSE LET metadata == Deref(node.meta) IN
         IF ~Has(metadata, "outputVariables") THEN Outcome("", executeVarsArg, None)
         ELSE IF metadata["outputVariables"].kind # "list"
              THEN Outcome("outputVariables must be an array", EmptyMap, None)
         ELSE Outcome("", CopyNamed(StringItems(metadata["outputVariables"].items),
                                    executeVarsArg, EmptyMap), None)

----------------------------------------------------------------------------
(* processConditionNode *)

\* An unrecognized operator is never met, and >= and <= are strict.
evaluateConditionStrict(value, operator, threshold) ==
    CASE operator = "greater_than" -> value > threshold
      [] operator = "less_than" -> value < threshold
      [] operator = "equals" -> value = threshold
      [] operator = "greater_than_or_equal" -> value > threshold
      [] operator = "less_than_or_equal" -> value < threshold
      [] OTHER -> FALSE

\* The threshold is a float32 that the caller widens to float64, which keeps
\* its value: both numbers are compared as they are.
evaluateCondition(value, operator, threshold) ==
    CASE operator = "greater_than" -> value > threshold
      [] operator = "less_than" -> value < threshold
      [] operator = "equals" -> value = threshold
      [] operator = "greater_than_or_equal" -> value >= threshold
      [] operator = "less_than_or_equal" -> value <= threshold
      [] OTHER -> value > threshold

processConditionNode(executeVarsArg, condition) ==
    IF IsNil(condition) THEN Outcome("condition configuration is missing", EmptyMap, None)
    ELSE IF ~IsFloat(executeVarsArg, "temperature")
         THEN Outcome("temperature not found in executeVars or invalid type", EmptyMap, None)
    ELSE LET temperature == executeVarsArg["temperature"].n
             c == Deref(condition)
             conditionMet == evaluateCondition(temperature, c.operator, c.threshold)
         IN Outcome("",
                [conditionMet |-> B(conditionMet),
                 threshold |-> F32(c.threshold),
                 operator |-> S(c.operator),
                 actualValue |-> F(temperature),
                 message |-> S(IF conditionMet THEN "condition met" ELSE "condition not met")],
                None)

----------------------------------------------------------------------------
(* processEmailNode *)

RECURSIVE PickPresent(_, _, _)
PickPresent(names, src, acc) ==
    IF names = <<>> THEN acc
    ELSE PickPresent(Tail(names), src,
            IF Has(src, Head(names).s) THEN Put(acc, Head(names).s, src[Head(names).s])
            ELSE acc)

\* The input value is copied over a value found in the response.
RECURSIVE FillOverwriting(_, _, _)
FillOverwriting(names, src, output) ==
    IF names = <<>> THEN output
    ELSE FillOverwriting(Tail(names), src,
            IF Has(src, Head(names).s)
            THEN Put(output, Head(names).s, src[Head(names).s])
            ELSE output)

RECURSIVE FillMissing(_, _, _)
FillMissing(names, src, output) ==
    IF names = <<>> THEN output
    ELSE FillMissing(Tail(names), src,
            IF ~Has(output, Head(names).s) /\ Has(src, Head(names).s)
            THEN Put(output, Head(names).s, src[Head(names).s])
            ELSE output)

ListNames(metadata, key) ==
    IF Has(metadata, key) /\ metadata[key].kind = "list"
    THEN StringItems(metadata[key].items) ELSE <<>>

TemplateField(templateMap, key) ==
    IF Has(templateMap, key) /\ templateMap[key].kind = "string"
    THEN templateMap[key].toks ELSE <<>>

processEmailNode(node, executeVarsArg) ==
    IF IsNil(node.meta) THEN Outcome("email node missing metadata", EmptyMap, None)
    ELSE LET metadata == Deref(node.meta) IN
         IF IsBool(executeVarsArg, "conditionMet") /\ ~AsBool(executeVarsArg, "conditionMet")
         THEN Outcome("", EmptyMap, None)
         ELSE IF ~Has(metadata, "emailTemplate")
              THEN Outcome("email node missing emailTemplate in metadata", EmptyMap, None)
         ELSE IF metadata["emailTemplate"].kind # "object"
              THEN Outcome("emailTemplate must be an object", EmptyMap, None)
         ELSE LET templateMap == metadata["emailTemplate"].obj
                  inputValues == PickPresent(ListNames(metadata, "inputVariables"),
                                             executeVarsArg, EmptyMap)
                  subject == ReplaceAll(TemplateField(templateMap, "subject"), executeVarsArg)
                  body == ReplaceAll(TemplateField(templateMap, "body"), executeVarsArg)
                  email == IF Has(executeVarsArg, "email") /\ executeVarsArg["email"].t = "string"
                           THEN executeVarsArg["email"].s ELSE ""
                  draft == [emailDraft |-> M([to |-> email,
                                              from |-> "weather-alerts@example.com",
                                              subject |-> subject,
                                              body |-> body]),
                            deliveryStatus |-> S("sent"),
                            messageId |-> S("msg"),
                            emailSent |-> B(TRUE)]
              IN Outcome("", FillMissing(ListNames(metadata, "outputVariables"),
                                         inputValues, draft), None)

----------------------------------------------------------------------------
(* findValueInMap: the order in which Go ranges over a map is not fixed,  *)
(* so the candidates may be collected in several orders; the operators    *)
(* give every order, and findValueInMap every value that may be returned. *)

\* %.1f of a number in tenths
Fmt1(n) ==
    IF n < 0 THEN "-" \o ToString((0 - n) \div 10) \o "." \o ToString((0 - n) % 10)
    ELSE ToString(n \div 10) \o "." \o ToString(n % 10)

\* A json.Number becomes a float64 when it is collected.
Collected(v) == IF v.t = "json.Number" THEN F(v.n) ELSE v

RECURSIVE findValueInMapHelper(_, _, _, _)
RECURSIVE NestedCandidates(_, _, _, _, _)
findValueInMapHelper(data, key, currentDepth, maxDepth) ==
    LET own == IF Has(data, key) THEN <<Collected(data[key])>> ELSE <<>> IN
    IF currentDepth >= maxDepth THEN {own}
    ELSE {own \o rest :
            rest \in NestedCandidates(data, key, currentDepth, maxDepth,
                                      {k \in DOMAIN data : data[k].t = "map"})}

NestedCandidates(data, key, currentDepth, maxDepth, remaining) ==
    IF remaining = {} THEN {<<>>}
    ELSE UNION {
            {a \o b : a \in findValueInMapHelper(data[k].m, key, currentDepth + 1, maxDepth),
                      b \in NestedCandidates(data, key, currentDepth, maxDepth,
                                             remaining \ {k})}
            : k \in remaining}

\* The first candidate, numeric or not, else nil.
PreferFirst(candidates) == IF candidates # <<>> THEN Head(candidates) ELSE Null

\* The first numeric candidate, else the first candidate, else nil.
PreferNumeric(candidates) ==
    LET numeric == SelectSeq(candidates, LAMBDA v : v.t \in {"float64", "float32", "int"}) IN
    IF numeric # <<>> THEN Head(numeric)
    ELSE IF candidates # <<>> THEN Head(candidates)
    ELSE Null

findValueInMap(data, key, currentDepth, maxDepth) ==
    {PreferNumeric(c) : c \in findValueInMapHelper(data, key, currentDepth, maxDepth)}

----------------------------------------------------------------------------
(* processIntegrationNode *)

\* No name is reported missing.
FirstMissingNone(names, executeVarsArg) == ""

\* The first name of the list that executeVars lacks, "" when none is missing.
RECURSIVE FirstMissing(_, _)
FirstMissing(names, executeVarsArg) ==
    IF names = <<>> THEN ""
    ELSE IF ~Has(executeVarsArg, Head(names).s) THEN Head(names).s
    ELSE FirstMissing(Tail(names), executeVarsArg)

OptionMatches(option, inputValues) ==
    \A key \in DOMAIN inputValues : Has(option, key) /\ option[key] = inputValues[key]

\* The last option that is an object and matches is selected.
RECURSIVE SelectLastOption(_, _)
SelectLastOption(optionsList, inputValues) ==
    IF optionsList = <<>> THEN None
    ELSE LET later == SelectLastOption(Tail(optionsList), inputValues) IN
         IF ~IsNil(later) THEN later
         ELSE IF Head(optionsList).t = "map" /\ OptionMatches(Head(optionsList).m, inputValues)
              THEN Some(Head(optionsList).m)
         ELSE None

\* The first option that is an object and matches, None when there is none.
RECURSIVE SelectOption(_, _)
SelectOption(optionsList, inputValues) ==
    IF optionsList = <<>> THEN None
    ELSE IF Head(optionsList).t = "map" /\ OptionMatches(Head(optionsList).m, inputValues)
         THEN Some(Head(optionsList).m)
    ELSE SelectOption(Tail(optionsList), inputValues)

\* Every way to extract the output variables from the response.
RECURSIVE ExtractOutputs(_, _, _)
ExtractOutputs(names, responseMap, output) ==
    IF names = <<>> THEN {output}
    ELSE UNION {
            ExtractOutputs(Tail(names), responseMap,
                IF value # Null THEN Put(output, Head(names).s, value) ELSE output)
            : value \in findValueInMap(responseMap, Head(names).s, 0, 2)}

WithWeatherMessage(output, inputValues) ==
    IF IsFloat(output, "temperature") /\ Has(inputValues, "city")
       /\ inputValues["city"].t = "string"
    THEN Put(output, "message",
             S("Weather data fetched for " \o inputValues["city"].s \o ": "
               \o Fmt1(output["temperature"].n)))
    ELSE output

\* resp is what the network gives back once the request is sent.
processIntegrationNode(ctxDone, node, executeVarsArg, resp) ==
    IF IsNil(node.meta) THEN {Outcome("integration node missing metadata", EmptyMap, None)}
    ELSE LET metadata == Deref(node.meta) IN
    IF ~Has(metadata, "inputVariables")
    THEN {Outcome("integration node missing inputVariables in metadata", EmptyMap, None)}
    ELSE IF metadata["inputVariables"].kind # "list"
    THEN {Outcome("inputVariables must be an array", EmptyMap, None)}
    ELSE LET inputNames == StringItems(metadata["inputVariables"].items)
             missing == FirstMissing(inputNames, executeVarsArg) IN
    IF missing # ""
    THEN {Outcome("required input variable '" \o missing \o "' not found in executeVars",
                  EmptyMap, None)}
    ELSE LET inputValues == PickPresent(inputNames, executeVarsArg, EmptyMap) IN
    IF ~Has(metadata, "options")
    THEN {Outcome("integration node missing options in metadata", EmptyMap, None)}
    ELSE IF metadata["options"].kind # "list"
    THEN {Outcome("options must be an array", EmptyMap, None)}
    ELSE LET selectedOption == SelectOption(metadata["options"].items, inputValues) IN
    IF IsNil(selectedOption)
    THEN {Outcome("no matching option found for input values", EmptyMap, None)}
    ELSE IF ~Has(metadata, "apiEndpoint")
    THEN {Outcome("integration node missing apiEndpoint in metadata", EmptyMap, None)}
    ELSE IF metadata["apiEndpoint"].kind # "string"
    THEN {Outcome("apiEndpoint must be a string", EmptyMap, None)}
    ELSE LET apiURL == ReplaceAll(metadata["apiEndpoint"].toks, Deref(selectedOption))
             call == Some(apiURL) IN
    IF ctxDone \/ resp.kind = "canceled"
    THEN {Outcome("failed to call API: context canceled", EmptyMap, call)}
    ELSE IF resp.kind = "error"
    THEN {Outcome("failed to call API: connection refused", EmptyMap, call)}
    ELSE IF resp.body.t = "invalid"
    THEN {Outcome("failed to parse API response", EmptyMap, call)}
    ELSE IF resp.body.t # "map"
    THEN {Outcome("API response is not a JSON object", EmptyMap, call)}
    ELSE LET outputNames == ListNames(metadata, "outputVariables") IN
         {Outcome("", FillMissing(outputNames, inputValues,
                                  WithWeatherMessage(extracted, inputValues)), call)
            : extracted \in ExtractOutputs(outputNames, resp.body.m, EmptyMap)}

----------------------------------------------------------------------------
(* executeWorkflowSteps: one iteration of the loop *)

\* The error message is not recorded on the step.
ExecutionStepWithoutError(node, status, error, output) ==
    [nodeId |-> node.id, type |-> node.type, status |-> status, error |-> "",
     output |-> output]

\* The status the step was built with is kept when the handler fails.
ExecutionStepStaysCompleted(node, status, error, output) ==
    [nodeId |-> node.id, type |-> node.type, status |-> "completed", error |-> error,
     output |-> output]

\* Every step is given a message, whatever the type of its node.
ExecutionStepWithMessage(node, status, error, output) ==
    [nodeId |-> node.id, type |-> node.type, status |-> status, error |-> error,
     output |-> IF Has(output, "message") THEN output
                ELSE Put(output, "message", S("Node processed"))]

ExecutionStep(node, status, error, output) ==
    [nodeId |-> node.id, type |-> node.type, status |-> status, error |-> error,
     output |-> output]

\* The outcomes of the handler the switch dispatches to; a type without a
\* case has no handler and an empty output.
HandlerOutcomes(node, executeVarsArg, condition, ctxDone, resp) ==
    CASE node.type = "form" -> {processFormNode(node, executeVarsArg)}
      [] node.type = "integration" ->
            processIntegrationNode(ctxDone, node, executeVarsArg, resp)
      [] node.type = "condition" -> {processConditionNode(executeVarsArg, condition)}
      [] node.type = "email" -> {processEmailNode(node, executeVarsArg)}
      [] OTHER -> {Outcome("", EmptyMap, None)}

\* The step the switch builds from the handler's outcome.
StepOf(node, out, executeVarsArg) ==
    CASE node.type = "start" ->
            ExecutionStep(node, "completed", "",
                          Put(out.output, "message", S("Workflow started successfully")))
      [] node.type = "form" ->
            IF out.err # ""
            THEN ExecutionStep(node, "failed", out.err,
                               Put(out.output, "message", S("Failed to process form data")))
            ELSE ExecutionStep(node, "completed", "",
                               Put(out.output, "message", S("Form data processed successfully")))
      [] node.type = "integration" ->
            IF out.err # ""
            THEN ExecutionStep(node, "failed", out.err,
                               Put(out.output, "message", S("Failed to process integration")))
            ELSE ExecutionStep(node, "completed", "", out.output)
      [] node.type = "condition" ->
            IF out.err # ""
            THEN ExecutionStep(node, "failed", out.err,
                               Put(out.output, "message", S("Failed to evaluate condition")))
            ELSE ExecutionStep(node, "completed", "", out.output)
      [] node.type = "email" ->
            IF out.err # ""
            THEN ExecutionStep(node, "failed", out.err,
                               Put(out.output, "message", S("Failed to process email")))
            ELSE IF ~AsBool(executeVarsArg, "conditionMet")
            THEN ExecutionStep(node, "skipped", "",
                               Put(out.output, "message",
                                   S("Email alert skipped - condition not met")))
            ELSE ExecutionStep(node, "completed", "", out.output)
      [] node.type = "end" ->
            ExecutionStep(node, "completed", "",
                          Put(out.output, "message", S("Workflow completed successfully")))
      [] OTHER -> ExecutionStep(node, "completed", "", out.output)

\* The condition node's output is not copied into executeVars.
VarsAfterIntegrationOnly(node, out, executeVarsArg) ==
    IF node.type = "integration" /\ out.err = ""
    THEN Merge(executeVarsArg, out.output)
    ELSE executeVarsArg

\* The integration node's output is not copied into executeVars.
VarsAfterConditionOnly(node, out, executeVarsArg) ==
    IF node.type = "condition" /\ out.err = ""
    THEN Merge(executeVarsArg, out.output)
    ELSE executeVarsArg

\* The output of every node is copied into executeVars.
VarsAfterEveryNode(node, out, executeVarsArg) == Merge(executeVarsArg, out.output)

\* executeVars after the switch: a successful integration or condition node
\* copies its output into it.
VarsAfter(node, out, executeVarsArg) ==
    IF node.type \in {"integration", "condition"} /\ out.err = ""
    THEN Merge(executeVarsArg, out.output)
    ELSE executeVarsArg

\* The source handle is compared for every node type.
EdgeFollowedAnyType(node, edge, conditionMet) ==
    IF ~IsNil(edge.sourceHandle)
    THEN \/ Deref(edge.sourceHandle) = "true" /\ conditionMet
         \/ Deref(edge.sourceHandle) = "false" /\ ~conditionMet
    ELSE TRUE

\* The "false" branch is followed when the condition is met as well.
EdgeFollowedBothBranches(node, edge, conditionMet) ==
    IF node.type = "condition"
    THEN IF ~IsNil(edge.sourceHandle)
         THEN \/ Deref(edge.sourceHandle) = "true" /\ conditionMet
              \/ Deref(edge.sourceHandle) = "false"
         ELSE TRUE
    ELSE TRUE

\* An edge with a source handle is not followed out of a node that is not a
\* condition node.
EdgeFollowedUnhandledOnly(node, edge, conditionMet) ==
    IF node.type = "condition"
    THEN IF ~IsNil(edge.sourceHandle)
         THEN \/ Deref(edge.sourceHandle) = "true" /\ conditionMet
              \/ Deref(edge.sourceHandle) = "false" /\ ~conditionMet
         ELSE TRUE
    ELSE IsNil(edge.sourceHandle)

\* A source handle that is neither "true" nor "false" counts as no handle.
EdgeFollowedOtherHandles(node, edge, conditionMet) ==
    IF node.type = "condition"
    THEN IF ~IsNil(edge.sourceHandle) /\ Deref(edge.sourceHandle) \in {"true", "false"}
         THEN \/ Deref(edge.sourceHandle) = "true" /\ conditionMet
              \/ Deref(edge.sourceHandle) = "false" /\ ~conditionMet
         ELSE TRUE
    ELSE TRUE

\* Whether the loop over the outgoing edges appends the edge's target.
EdgeFollowed(node, edge, conditionMet) ==
    IF node.type = "condition"
    THEN IF ~IsNil(edge.sourceHandle)
         THEN \/ Deref(edge.sourceHandle) = "true" /\ conditionMet
              \/ Deref(edge.sourceHandle) = "false" /\ ~conditionMet
         ELSE TRUE
    ELSE TRUE

\* The conditionMet of the context is not read: the condition counts as unmet.
FollowedEdgesUnmet(node, edges, executeVarsArg) ==
    SelectSeq(edges, LAMBDA e : EdgeFollowed(node, e, FALSE))

FollowedEdges(node, edges, executeVarsArg) ==
    SelectSeq(edges,
              LAMBDA e : EdgeFollowed(node, e, AsBool(executeVarsArg, "conditionMet")))

Targets(edges) == [i \in DOMAIN edges |-> edges[i].target]

\* The targets are put in front of the queue.
EnqueueInFront(q, targets) == targets \o q

\* Only the first followed edge is enqueued.
EnqueueFirstOnly(q, targets) == IF targets = <<>> THEN q ELSE Append(q, Head(targets))

\* queue = append(queue, edge.Target), for every followed edge
Enqueue(q, targets) == q \o targets

\* steps = append(steps, step)
AppendStep(stepsArg, step) == Append(stepsArg, step)

\* The dequeued id stays at the head of the queue.
DequeueKeepsHead(q) == q

\* queue = queue[1:]
Dequeue(q) == Tail(q)

\* The id is not recorded as visited.
MarkVisitedForgets(visitedArg, id) == visitedArg

\* visited[currentNodeId] = true
MarkVisited(visitedArg, id) == visitedArg \cup {id}

----------------------------------------------------------------------------
(* The runs that are explored *)

MaxEdges == 3

\* Metadata of the sample workflow's nodes, and malformed variants.
FormMeta == Some([outputVariables |-> List(<<S("name"), S("city")>>)])
FormMetaNotList == Some([outputVariables |-> Str(<<Lit("city")>>)])
IntegrationMeta ==
    Some([inputVariables |-> List(<<S("city")>>),
          options |-> List(<<M([city |-> S("Sydney")]), M([city |-> S("Melbourne")])>>),
          apiEndpoint |-> Str(<<Lit("http://weather/"), Ph("city")>>),
          outputVariables |-> List(<<S("temperature")>>)])
EmailMeta ==
    Some([inputVariables |-> List(<<S("city"), S("temperature")>>),
          emailTemplate |-> Obj([subject |-> Str(<<Lit("Weather Alert")>>),
                                 body |-> Str(<<Lit("Weather alert for "), Ph("city"),
                                                Lit("! Temperature is "), Ph("temperature")>>)])])

\* Node kinds: a type with metadata its handler accepts, or rejects.
GoodKinds ==
    {<<"start", None>>, <<"form", FormMeta>>, <<"integration", IntegrationMeta>>,
     <<"condition", None>>, <<"email", EmailMeta>>, <<"end", None>>, <<"delay", None>>}
BadKinds ==
    {<<"form", FormMetaNotList>>, <<"integration", None>>, <<"email", None>>}
Kinds == GoodKinds \cup BadKinds

Weather(temp) == M([current_weather |-> M([temperature |-> Num(temp)])])
ResponseBodies ==
    {Weather(285), Weather(180), M(EmptyMap), [t |-> "invalid", n |-> 0, s |-> "", m |-> <<>>],
     S("down"), M([temperature |-> S("hot")]),
     M([city |-> S("Sydney AU"), temperature |-> Num(285)])}
ErrorBodies == {Weather(285), M([error |-> S("Internal Server Error")])}

\* What the network may answer to the GET of an integration node: no
\* answer, or an HTTP status with a body; the other nodes send nothing.
NoResponse == [kind |-> "none", status |-> 0, body |-> Null]
Responses ==
    {[kind |-> "error", status |-> 0, body |-> Null],
     [kind |-> "canceled", status |-> 0, body |-> Null]}
    \cup {[kind |-> "response", status |-> 200, body |-> b] : b \in ResponseBodies}
    \cup {[kind |-> "response", status |-> 500, body |-> b] : b \in ErrorBodies}

\* Sequences of exactly n elements of a set.
RECURSIVE SeqsOf(_, _)
SeqsOf(alphabet, n) ==
    IF n = 0 THEN {<<>>}
    ELSE {Append(l, e) : l \in SeqsOf(alphabet, n - 1), e \in alphabet}

Handles == {None, Some("true"), Some("false"), Some("maybe")}

\* Topologies: n1 is the start node, n2 a condition or an email node, n3 and
\* n4 plain nodes, nx is no node.  The edges out of n2 carry every handle.
\* adjacencyList keeps the order of the edges of one source only, so the
\* lists are enumerated source by source.
EdgesFrom1 == {Edge("n1", tgt, None) : tgt \in {"n2", "n3", "nx"}}
EdgesFrom2 ==
    {Edge("n2", tgt, h) : tgt \in {"n3", "n4"}, h \in Handles} \cup {Edge("n2", "n2", None)}
EdgesFrom3 == {Edge("n3", tgt, None) : tgt \in {"n1", "n4"}}

EdgeLists ==
    UNION {{a \o b \o c : a \in SeqsOf(EdgesFrom1, i), b \in SeqsOf(EdgesFrom2, j),
                          c \in SeqsOf(EdgesFrom3, k)}
            : <<i, j, k>> \in {x \in (0..MaxEdges) \X (0..MaxEdges) \X (0..MaxEdges)
                                 : x[1] + x[2] + x[3] <= MaxEdges}}

Topologies ==
    {[nodes |-> Some(<<Node("n1", "start", None), Node("n2", k[1], k[2]),
                       Node("n3", "end", None), Node("n4", "delay", None)>>),
      edges |-> Some(l)]
        : k \in {<<"condition", None>>, <<"email", EmailMeta>>}, l \in EdgeLists}

Condition(op, th) == Some([operator |-> op, threshold |-> th])

TopologyInputs ==
    {[formData |-> Some(fd), condition |-> Condition("greater_than", 250)]
        : fd \in {[city |-> S("Sydney")],
                  [city |-> S("Sydney"), temperature |-> F(285)],
                  [city |-> S("Sydney"), temperature |-> F(180)]}}

\* Pipelines: start -> n2 -> n3 -> n4, n2 and n3 of every kind.
Pipelines ==
    {[nodes |-> Some(<<Node("n1", "start", None), Node("n2", k2[1], k2[2]),
                       Node("n3", k3[1], k3[2]), Node("n4", "end", None)>>),
      edges |-> Some(<<Edge("n1", "n2", None), Edge("n2", "n3", None),
                       Edge("n3", "n4", h)>>)]
        : k2 \in Kinds, k3 \in Kinds, h \in {None, Some("true")}}

PipelineInputs ==
    {[formData |-> fd, condition |-> c]
        : fd \in {None, Some(EmptyMap), Some([city |-> S("Sydney")]),
                  Some([city |-> S("Brisbane")]),
                  Some([city |-> S("Melbourne"), temperature |-> F(300)]),
                  Some([city |-> S("Sydney"), temperature |-> S("hot")]),
                  Some([city |-> S("Sydney"), conditionMet |-> B(TRUE)])},
          c \in {None, Condition("greater_than", 250), Condition("less_than", 250)}}

\* Degenerate graphs: no node list, no start node, a start node that is not
\* first, two start nodes, an id used twice, an empty id, no edge list.
DegenerateGraphs ==
    {[nodes |-> ns, edges |-> es]
        : ns \in {None, Some(<<>>),
                  Some(<<Node("n1", "end", None), Node("n2", "form", None)>>),
                  Some(<<Node("n1", "form", None), Node("n2", "start", None)>>),
                  Some(<<Node("n1", "start", None), Node("n2", "start", None)>>),
                  Some(<<Node("n1", "start", None), Node("n1", "end", None)>>),
                  Some(<<Node("", "start", None), Node("n2", "end", None)>>)},
          es \in {None, Some(<<>>), Some(<<Edge("n1", "n2", None)>>),
                  Some(<<Edge("n2", "n1", None), Edge("n1", "n2", None)>>)}}

DegenerateInputs ==
    {[formData |-> fd, condition |-> None] : fd \in {None, Some([city |-> S("Sydney")])}}

\* The sample workflow: start -> form -> weather-api -> condition, then email
\* on "true" and end on "false", email -> end.  The integration node has the
\* options and the endpoint of a mock server.
SampleFormMeta == Some([inputFields |-> List(<<S("name"), S("email"), S("city")>>),
                        outputVariables |-> List(<<S("name"), S("email"), S("city")>>)])

SampleWorkflow ==
    [nodes |-> Some(<<Node("start", "start", None), Node("form", "form", SampleFormMeta),
                      Node("weather-api", "integration", IntegrationMeta),
                      Node("condition", "condition", None),
                      Node("email", "email", EmailMeta), Node("end", "end", None)>>),
     edges |-> Some(<<Edge("start", "form", None), Edge("form", "weather-api", None),
                      Edge("weather-api", "condition", None),
                      Edge("condition", "email", Some("true")),
                      Edge("condition", "end", Some("false")),
                      Edge("email", "end", None)>>)]

SampleInputs ==
    {[formData |-> Some(fd), condition |-> Condition("greater_than", th)]
        : fd \in {[name |-> S("Alice"), city |-> S("Sydney")],
                  [name |-> S("Bob"), email |-> S("bob@example.com"),
                   city |-> S("Melbourne")]},
          th \in {250, 300}}

\* Conditions: start -> condition, then end on "true" and a delay on "false",
\* for every operator, with temperatures below, at and above the threshold,
\* and a temperature that is an int.
Operators ==
    {"greater_than", "less_than", "equals", "greater_than_or_equal",
     "less_than_or_equal", "between"}

ConditionWorkflow ==
    [nodes |-> Some(<<Node("n1", "start", None), Node("n2", "condition", None),
                      Node("n3", "end", None), Node("n4", "delay", None)>>),
     edges |-> Some(<<Edge("n1", "n2", None), Edge("n2", "n3", Some("true")),
                      Edge("n2", "n4", Some("false"))>>)]

ConditionInputs ==
    {[formData |-> Some([temperature |-> t]), condition |-> Condition(op, th)]
        : t \in {F(240), F(250), F(260), I(260)}, op \in Operators, th \in {250, 255}}

\* Integrations: start -> integration -> end, for metadata that lack a key,
\* hold a key of the wrong type, or hold options of which none, one or two
\* match the city.
Without(m, k) == [x \in (DOMAIN m) \ {k} |-> m[x]]

IntegrationMetaTwoMatches ==
    Some([inputVariables |-> List(<<S("city")>>),
          options |-> List(<<S("Sydney"),
                             M([city |-> S("Sydney"), station |-> S("a")]),
                             M([city |-> S("Sydney"), station |-> S("b")]),
                             M([station |-> S("c")])>>),
          apiEndpoint |-> Str(<<Lit("http://weather/"), Ph("city"), Lit("/"), Ph("station")>>),
          outputVariables |-> List(<<S("temperature"), S("city")>>)])

IntegrationMetas ==
    {IntegrationMeta, IntegrationMetaTwoMatches, Some(EmptyMap)}
    \cup {Some(Without(Deref(IntegrationMeta), k))
            : k \in {"inputVariables", "options", "apiEndpoint", "outputVariables"}}
    \cup {Some(Put(Deref(IntegrationMeta), "inputVariables", Str(<<Lit("city")>>))),
          Some(Put(Deref(IntegrationMeta), "options", Str(<<Lit("Sydney")>>))),
          Some(Put(Deref(IntegrationMeta), "apiEndpoint", List(<<S("http://weather/")>>))),
          Some(Put(Deref(IntegrationMeta), "inputVariables", List(<<>>)))}

IntegrationWorkflows ==
    {[nodes |-> Some(<<Node("n1", "start", None), Node("n2", "integration", meta),
                       Node("n3", "end", None)>>),
      edges |-> Some(<<Edge("n1", "n2", None), Edge("n2", "n3", None)>>)]
        : meta \in IntegrationMetas}

IntegrationInputs ==
    {[formData |-> Some(fd), condition |-> None]
        : fd \in {EmptyMap, [city |-> S("Sydney")], [city |-> S("Melbourne")],
                  [city |-> S("Brisbane")]}}

\* Forms: start -> integration -> form -> end, the form node without metadata,
\* with metadata that declare no output variables, an empty list of them, or
\* a list with a name the context lacks and an element that is no string; the
\* context the form
\* node sees is empty, the input, or the input and the integration's output.
FormWorkflows ==
    {[nodes |-> Some(<<Node("n1", "start", None), Node("n2", "integration", IntegrationMeta),
                       Node("n3", "form", meta), Node("n4", "end", None)>>),
      edges |-> Some(<<Edge("n1", "n2", None), Edge("n2", "n3", None),
                       Edge("n3", "n4", None)>>)]
        : meta \in {None, Some(EmptyMap),
                    Some([inputFields |-> List(<<S("name"), S("city")>>)]),
                    Some([outputVariables |-> List(<<>>)]),
                    Some([outputVariables |-> List(<<S("city"), F(10), S("phone"),
                                                     S("temperature")>>)])}}

FormInputs ==
    {[formData |-> fd, condition |-> None]
        : fd \in {None, Some(EmptyMap), Some([city |-> S("Sydney")]),
                  Some([city |-> S("Sydney"), message |-> S("hello")])}}

\* Emails: start -> condition -> email -> end without handles, so that the
\* email node is handled whether the condition is met, not met, or has
\* failed; the email node without metadata, without a template, with a
\* template that is no object, and with templates whose placeholders the
\* context holds or lacks.
EmailMetaPlaceholders ==
    Some([inputVariables |-> List(<<S("name"), S("city")>>),
          emailTemplate |-> Obj([subject |-> Str(<<Lit("Hi "), Ph("name"), Lit("!")>>),
                                 body |-> Str(<<Ph("city"), Lit(" is "), Ph("operator"),
                                                Lit(" "), Ph("temperature"), Lit(" "),
                                                Ph("unknown")>>)]),
          outputVariables |-> List(<<S("emailSent"), S("city")>>)])

EmailMetas ==
    {None, Some(EmptyMap), EmailMeta, EmailMetaPlaceholders,
     Some([inputVariables |-> List(<<S("email")>>)]),
     Some([emailTemplate |-> Str(<<Lit("not-a-map")>>)]),
     Some([emailTemplate |-> Obj([body |-> Str(<<Lit("Hello "), Ph("name")>>)])])}

EmailWorkflows ==
    {[nodes |-> Some(<<Node("n1", "start", None), Node("n2", "condition", None),
                       Node("n3", "email", meta), Node("n4", "end", None)>>),
      edges |-> Some(<<Edge("n1", "n2", None), Edge("n2", "n3", None),
                       Edge("n3", "n4", None)>>)]
        : meta \in EmailMetas}

EmailInputs ==
    {[formData |-> Some(fd), condition |-> Condition("greater_than", 250)]
        : fd \in {[temperature |-> F(300), city |-> S("Sydney"),
                   email |-> S("user@example.com")],
                  [temperature |-> F(205), name |-> S("Alice")],
                  [city |-> S("Sydney")],
                  [city |-> S("Sydney"), email |-> F(10), conditionMet |-> S("yes")]}}

\* A condition node before and after an integration node: start -> condition
\* -> weather-api -> condition, then end on "true" and on "false".
RecheckWorkflow ==
    [nodes |-> Some(<<Node("n1", "start", None), Node("n2", "condition", None),
                      Node("n3", "integration", IntegrationMeta),
                      Node("n4", "condition", None), Node("n5", "end", None),
                      Node("n6", "end", None)>>),
     edges |-> Some(<<Edge("n1", "n2", None), Edge("n2", "n3", None),
                      Edge("n3", "n4", None), Edge("n4", "n5", Some("true")),
                      Edge("n4", "n6", Some("false"))>>)]

RecheckInputs ==
    {[formData |-> Some([city |-> S("Sydney"), temperature |-> F(t)]),
      condition |-> Condition("greater_than", 250)] : t \in {285, 180}}

\* Edges to and from an id that is no node: start -> nx and start -> n2, with
\* nx -> n3, and n2 -> n3 or not.
DanglingWorkflows ==
    {[nodes |-> Some(<<Node("n1", "start", None), Node("n2", "form", None),
                       Node("n3", "end", None)>>),
      edges |-> Some(<<Edge("n1", "nx", None), Edge("n1", "n2", None),
                       Edge("nx", "n3", None)>> \o more)]
        : more \in {<<>>, <<Edge("n2", "n3", None)>>, <<Edge("n2", "nx", None)>>}}

Runs ==
    (Topologies \X TopologyInputs) \cup (Pipelines \X PipelineInputs)
    \cup (DegenerateGraphs \X DegenerateInputs)
    \cup ({SampleWorkflow} \X SampleInputs)
    \cup ({ConditionWorkflow} \X ConditionInputs)
    \cup (IntegrationWorkflows \X IntegrationInputs)
    \cup (FormWorkflows \X FormInputs)
    \cup (EmailWorkflows \X EmailInputs)
    \cup ({RecheckWorkflow} \X RecheckInputs)
    \cup (DanglingWorkflows \X DegenerateInputs)

\* The runs whose termination is checked: every topology with a condition
\* node that is met or not met, the degenerate graphs and the pipelines of
\* the sample input.
CyclicRuns ==
    ({w \in Topologies : w.nodes[1][2].type = "condition"}
        \X {i \in TopologyInputs : Has(Deref(i.formData), "temperature")})
    \cup (Pipelines \X {[formData |-> Some([city |-> S("Sydney")]),
                         condition |-> Condition("greater_than", 250)]})
    \cup (DegenerateGraphs \X DegenerateInputs)

Start(runs) ==
    /\ \E run \in runs : workflow = run[1] /\ input = run[2]
    /\ pc = "call"
    /\ executeVars = EmptyMap
    /\ visited = {}
    /\ queue = <<>>
    /\ steps = <<>>
    /\ result = [status |-> "", steps |-> <<>>, err |-> ""]
    /\ ctxCanceled = FALSE
    /\ log = <<>>

Init == Start(Runs)

----------------------------------------------------------------------------
(* ExecuteWorkflow and executeWorkflowSteps *)

\* var executeVars = *input.FormData, or a fresh map when there is none
InitialVars(in) == IF IsNil(in.formData) THEN EmptyMap ELSE Deref(in.formData)

\* `range *workflow.Nodes` with Nodes nil: a nil pointer dereference.
BeginPanic ==
    /\ pc = "call"
    /\ IsNil(workflow.nodes)
    /\ pc' = "panic"
    /\ executeVars' = InitialVars(input)
    /\ UNCHANGED <<workflow, input, visited, queue, steps, result, ctxCanceled, log>>

\* No start node: executeWorkflowSteps returns (nil, error) and
\* ExecuteWorkflow reports the status failed.
BeginNoStart ==
    /\ pc = "call"
    /\ ~IsNil(workflow.nodes)
    /\ FirstStart(Deref(workflow.nodes)) = ""
    /\ pc' = "done"
    /\ executeVars' = InitialVars(input)
    /\ result' = [status |-> "failed", steps |-> <<>>,
                  err |-> "no start node found in workflow"]
    /\ UNCHANGED <<workflow, input, visited, queue, steps, ctxCanceled, log>>

BeginRun ==
    /\ pc = "call"
    /\ ~IsNil(workflow.nodes)
    /\ FirstStart(Deref(workflow.nodes)) # ""
    /\ pc' = "loop"
    /\ executeVars' = InitialVars(input)
    /\ queue' = <<FirstStart(Deref(workflow.nodes))>>
    /\ UNCHANGED <<workflow, input, visited, steps, result, ctxCanceled, log>>

\* The dequeued id was visited before: continue.
SkipVisited ==
    /\ pc = "loop"
    /\ queue # <<>>
    /\ Head(queue) \in visited
    /\ queue' = Dequeue(queue)
    /\ UNCHANGED <<workflow, input, pc, executeVars, visited, steps, result, ctxCanceled, log>>

\* The dequeued id is no node of the graph: the run ends with an error.
SkipMissingFails ==
    /\ pc = "loop"
    /\ queue # <<>>
    /\ Head(queue) \notin visited
    /\ ~Has(nodeMap(workflow), Head(queue))
    /\ pc' = "done"
    /\ result' = [status |-> "failed", steps |-> <<>>, err |-> "node not found"]
    /\ UNCHANGED <<workflow, input, executeVars, visited, queue, steps, ctxCanceled, log>>

\* The dequeued id is no node of the graph: it is marked visited, continue.
SkipMissing ==
    /\ pc = "loop"
    /\ queue # <<>>
    /\ Head(queue) \notin visited
    /\ ~Has(nodeMap(workflow), Head(queue))
    /\ queue' = Dequeue(queue)
    /\ visited' = MarkVisited(visited, Head(queue))
    /\ UNCHANGED <<workflow, input, pc, executeVars, steps, result, ctxCanceled, log>>

\* The dequeued node is handled, its step appended, its successors enqueued.
ExecuteNode ==
    /\ pc = "loop"
    /\ queue # <<>>
    /\ Head(queue) \notin visited
    /\ Has(nodeMap(workflow), Head(queue))
    /\ LET currentNodeId == Head(queue)
           node == nodeMap(workflow)[currentNodeId]
       IN \E resp \in (IF node.type = "integration" THEN Responses ELSE {NoResponse}) :
          \E out \in HandlerOutcomes(node, executeVars, input.condition, ctxCanceled, resp) :
            LET vars1 == VarsAfter(node, out, executeVars)
                followed == FollowedEdges(node, adjacencyList(workflow, currentNodeId), vars1)
            IN /\ visited' = MarkVisited(visited, currentNodeId)
               /\ executeVars' = vars1
               /\ steps' = AppendStep(steps, StepOf(node, out, executeVars))
               /\ queue' = Enqueue(Dequeue(queue), Targets(followed))
               /\ ctxCanceled' = (ctxCanceled
                                  \/ (~IsNil(out.call) /\ resp.kind = "canceled"))
               /\ log' = Append(log, [id |-> currentNodeId,
                                      before |-> executeVars,
                                      after |-> vars1,
                                      followed |-> followed,
                                      call |-> out.call,
                                      out |-> out,
                                      resp |-> IF IsNil(out.call) THEN NoResponse
                                               ELSE resp])
    /\ UNCHANGED <<workflow, input, pc, result>>

\* The queue is empty: executeWorkflowSteps returns the steps and
\* ExecuteWorkflow the result, its status still completed.
Return ==
    /\ pc = "loop"
    /\ queue = <<>>
    /\ pc' = "done"
    /\ result' = [status |-> "completed", steps |-> steps, err |-> ""]
    /\ UNCHANGED <<workflow, input, executeVars, visited, queue, steps, ctxCanceled, log>>

Next ==
    \/ BeginPanic
    \/ BeginNoStart
    \/ BeginRun
    \/ SkipVisited
    \/ SkipMissing
    \/ ExecuteNode
    \/ Return

Spec == Init /\ [][Next]_vars

\* The loop runs on one thread that nothing suspends: a step that can be
\* taken is taken.
FairSpec == Start(CyclicRuns) /\ [][Next]_vars /\ WF_vars(Next)

----------------------------------------------------------------------------
(* Properties *)

Defined == DOMAIN nodeMap(workflow)
StepIds == {steps[i].nodeId : i \in DOMAIN steps}
FollowedSoFar == UNION {SeqToSet(log[i].followed) : i \in DOMAIN log}
Finished == pc = "done" /\ result.err = ""
\* The context the edge selection of the i-th handled node read.
executeVarsAt(i) == log[i].after

\* C1: the step sequence holds each node id at most once, on every graph,
\* also when several edges lead to one node and when the graph has a cycle.
C1_NoNodeTwice ==
    /\ \A i, j \in DOMAIN steps : steps[i].nodeId = steps[j].nodeId => i = j
    /\ pc = "done" => \A i, j \in DOMAIN result.steps :
                        result.steps[i].nodeId = result.steps[j].nodeId => i = j

\* A finished run in which two followed edges led to one node, which has one
\* step, and a followed edge led back to a node handled before.
C1_Witness ==
    /\ Finished
    /\ \E i, j \in DOMAIN log : \E e \in SeqToSet(log[i].followed),
                                   f \in SeqToSet(log[j].followed) :
          e # f /\ e.target = f.target /\ e.target \in StepIds
    /\ \E i \in DOMAIN log : \E e \in SeqToSet(log[i].followed) :
          \E j \in 1..i : log[j].id = e.target

\* C2: the loop ends: from every state in which it runs, the queue is
\* eventually empty and the result returned, on cyclic graphs too.
C2_Terminates == (pc = "loop") ~> (pc = "done" /\ queue = <<>>)

\* A finished run over a cycle: a followed edge led back to a node that had
\* its step, and the id was dequeued again.
C2_Witness ==
    /\ Finished
    /\ Len(steps) >= 2
    /\ \E i \in DOMAIN log : \E e \in SeqToSet(log[i].followed) :
          \E j \in 1..i : log[j].id = e.target

\* C3: of a "true" edge and a "false" edge of one condition node exactly one
\* is followed: the "true" edge iff conditionMet is true in the context.
C3_BranchExclusive ==
    \A i \in DOMAIN log :
        LET node == nodeMap(workflow)[log[i].id]
            out == adjacencyList(workflow, log[i].id)
            taken == SeqToSet(log[i].followed)
        IN node.type = "condition" =>
            \A eT, eF \in SeqToSet(out) :
                (eT.sourceHandle = Some("true") /\ eF.sourceHandle = Some("false")) =>
                    /\ (eT \in taken) # (eF \in taken)
                    /\ (eT \in taken) <=> AsBool(executeVarsAt(i), "conditionMet")

\* A condition node with both branches that took the "true" one, and one
\* that took the "false" one.
C3_Witness ==
    /\ Finished
    /\ \E i \in DOMAIN log :
          /\ nodeMap(workflow)[log[i].id].type = "condition"
          /\ steps[i].status = "completed"
          /\ AsBool(steps[i].output, "conditionMet")
          /\ \E eT, eF \in SeqToSet(adjacencyList(workflow, log[i].id)) :
                /\ eT.sourceHandle = Some("true") /\ eF.sourceHandle = Some("false")
                /\ eT \in SeqToSet(log[i].followed)

\* C4 (as claimed): once a step is failed the overall status is failed.
C4_FailedStepFailsRun ==
    pc = "done" =>
        ((\E i \in DOMAIN result.steps : result.steps[i].status = "failed")
            => result.status = "failed")

\* C5 (as claimed): a failed step carries its error, and every outgoing edge
\* of its node is followed, whatever the node's type.
C5_FailedFollowsEveryEdge ==
    \A i \in DOMAIN steps :
        steps[i].status = "failed" =>
            /\ steps[i].error # ""
            /\ log[i].followed = adjacencyList(workflow, log[i].id)

\* The edges of a condition node that the handles select for a conditionMet.
HandleSelected(edges, conditionMet) ==
    SelectSeq(edges, LAMBDA e :
        \/ e.sourceHandle = None
        \/ e.sourceHandle = Some("true") /\ conditionMet
        \/ e.sourceHandle = Some("false") /\ ~conditionMet)

\* C5 (amended): a failed step carries its error and the traversal goes on:
\* every outgoing edge of a failed form, integration or email node is
\* followed, and the edges of a failed condition node are still selected by
\* their handle against the conditionMet of the context.
C5_FailureDoesNotAbort ==
    \A i \in DOMAIN steps :
        steps[i].status = "failed" =>
            /\ steps[i].error # ""
            /\ IF steps[i].type = "condition"
               THEN log[i].followed =
                        HandleSelected(adjacencyList(workflow, log[i].id),
                                       AsBool(log[i].before, "conditionMet"))
               ELSE log[i].followed = adjacencyList(workflow, log[i].id)

\* A condition node failed, its "true" edge was left, its "false" edge was
\* followed and the node behind it has its step.
C5_Witness ==
    /\ Finished
    /\ \E i \in DOMAIN steps :
          /\ steps[i].status = "failed"
          /\ steps[i].type = "condition"
          /\ \E eT, eF \in SeqToSet(adjacencyList(workflow, log[i].id)) :
                /\ eT.sourceHandle = Some("true") /\ eT \notin SeqToSet(log[i].followed)
                /\ eF.sourceHandle = Some("false") /\ eF \in SeqToSet(log[i].followed)
                /\ \E j \in DOMAIN steps : j > i /\ steps[j].nodeId = eF.target

Canceled(step) == step.error = "failed to call API: context canceled"

\* C6 (as claimed): the step of an integration node whose call was canceled
\* is failed with the cancellation error and no step follows it.
C6_NothingAfterCancel ==
    \A i \in DOMAIN steps :
        (steps[i].type = "integration" /\ Canceled(steps[i])) =>
            steps[i].status = "failed" /\ i = Len(steps)

NoStartNode(wf) ==
    IsNil(wf.nodes) \/ \A i \in DOMAIN Deref(wf.nodes) : Deref(wf.nodes)[i].type # "start"

\* C7 (as claimed): a graph with no start node, its node list empty or
\* absent included, ends in the no-start-node error: status failed, no step,
\* no handler run.
C7_NoStartAborts ==
    (NoStartNode(workflow) /\ pc # "call") =>
        /\ pc = "done"
        /\ result.status = "failed"
        /\ result.err = "no start node found in workflow"
        /\ result.steps = <<>>
        /\ log = <<>>

StartId == FirstStart(Deref(workflow.nodes))

\* The ids within k followed edges of the start node.
RECURSIVE Within(_)
Within(k) ==
    IF k = 0 THEN {StartId}
    ELSE Within(k - 1) \cup {e.target : e \in {f \in FollowedSoFar : f.source \in Within(k - 1)}}

\* The distance of a node that has its step, over the followed edges.
Dist(id) == CHOOSE k \in 0..Len(steps) : id \in Within(k) /\ \A j \in 0..(k - 1) : id \notin Within(j)

\* C8: the steps are in visitation order, the first step is the start node,
\* and a node nearer to the start node (over the followed edges) has its
\* step before a node farther from it.
C8_BreadthFirst ==
    /\ Len(steps) = Len(log)
    /\ \A i \in DOMAIN steps : steps[i].nodeId = log[i].id
    /\ steps # <<>> => steps[1].nodeId = StartId
    /\ \A i, j \in DOMAIN steps :
          Dist(steps[i].nodeId) < Dist(steps[j].nodeId) => i < j

\* Two nodes at distance 1 and, after them, a node at distance 2 that was
\* enqueued before the second of them was handled.
C8_Witness ==
    /\ Finished
    /\ Len(steps) = 4
    /\ Dist(steps[2].nodeId) = 1 /\ Dist(steps[3].nodeId) = 1 /\ Dist(steps[4].nodeId) = 2
    /\ \E e \in SeqToSet(log[2].followed) : e.target = steps[4].nodeId

\* The conditionMet that the edge selection of a handled node read.
ConditionMetAt(id) ==
    \E i \in DOMAIN log : log[i].id = id /\ AsBool(log[i].after, "conditionMet")

\* The edges the traversal rule follows out of a node.
RuleEdges(id) ==
    IF id \notin Defined THEN {}
    ELSE LET out == SeqToSet(adjacencyList(workflow, id)) IN
         IF nodeMap(workflow)[id].type = "condition"
         THEN {e \in out : \/ e.sourceHandle = None
                           \/ e.sourceHandle = Some("true") /\ ConditionMetAt(id)
                           \/ e.sourceHandle = Some("false") /\ ~ConditionMetAt(id)}
         ELSE out

RECURSIVE Closure(_)
Closure(ids) ==
    LET more == ids \cup {e.target : e \in UNION {RuleEdges(id) : id \in ids}} IN
    IF more = ids THEN ids ELSE Closure(more)

\* C9: when the run ends the nodes with a step are exactly the defined nodes
\* reachable from the start node over followed edges: every edge of a
\* non-condition node, the handle-matching and unhandled edges of a
\* condition node.
C9_ExactlyReachable ==
    Finished => StepIds = Closure({StartId}) \cap Defined

\* A finished run that followed one edge of a condition node and not the
\* other, reached the node behind it and left a defined node without a step.
C9_Witness ==
    /\ Finished
    /\ Len(steps) >= 3
    /\ \E i \in DOMAIN steps : steps[i].type = "condition" /\ log[i].followed # <<>>
                               /\ log[i].followed # adjacencyList(workflow, log[i].id)
    /\ Defined \ StepIds # {}

\* C10: the output of a successful integration node is in the context, key by
\* key, when the next node is handled, and a condition node handled next
\* evaluates the temperature the integration node extracted.
C10_IntegrationFeedsCondition ==
    \A i \in DOMAIN steps :
        (steps[i].type = "integration" /\ steps[i].status = "completed") =>
            /\ \A k \in DOMAIN steps[i].output :
                  Has(log[i].after, k) /\ log[i].after[k] = steps[i].output[k]
            /\ i = Len(steps) => executeVars = log[i].after
            /\ i < Len(steps) =>
                  /\ log[i + 1].before = log[i].after
                  /\ (steps[i + 1].type = "condition" /\ steps[i + 1].status = "completed"
                      /\ Has(steps[i].output, "temperature"))
                        => steps[i + 1].output["actualValue"] = steps[i].output["temperature"]

\* The integration node extracted 28.5 from the response, the condition node
\* after it compared 28.5 with the threshold and was met.
C10_Witness ==
    /\ Finished
    /\ \E i \in DOMAIN steps :
          /\ steps[i].type = "integration" /\ steps[i].status = "completed"
          /\ Has(steps[i].output, "temperature") /\ steps[i].output["temperature"] = F(285)
          /\ ~Has(log[i].before, "temperature")
          /\ i < Len(steps)
          /\ steps[i + 1].type = "condition" /\ steps[i + 1].status = "completed"
          /\ steps[i + 1].output["actualValue"] = F(285)
          /\ steps[i + 1].output["conditionMet"] = B(TRUE)

----------------------------------------------------------------------------
(* Properties of the handlers *)

\* The i-th handled node: its definition and its step.
nodeAt(i) == nodeMap(workflow)[log[i].id]
Handled(type) == {i \in DOMAIN log : nodeAt(i).type = type}
Contains(toks, str) == \E k \in DOMAIN toks : ~toks[k].ph /\ toks[k].s = str

SampleScenario ==
    /\ workflow = SampleWorkflow
    /\ input = [formData |-> Some([name |-> S("Alice"), city |-> S("Sydney")]),
                condition |-> Condition("greater_than", 250)]
    /\ \E i \in DOMAIN log :
          /\ log[i].id = "weather-api"
          /\ log[i].resp = [kind |-> "response", status |-> 200, body |-> Weather(285)]

\* C11: on the sample workflow with the input {name: Alice, city: Sydney}, the
\* response {current_weather: {temperature: 28.5}} and the condition
\* greater_than 25, the run yields the six steps start, form, integration,
\* condition, email, end, all completed; the condition step's output has
\* conditionMet = true; the email step is not skipped and its rendered body
\* contains the city and the temperature.
C11_EndToEnd ==
    (Finished /\ SampleScenario) =>
        /\ [i \in DOMAIN result.steps |-> <<result.steps[i].nodeId, result.steps[i].type>>]
             = <<(<<"start", "start">>), (<<"form", "form">>),
                 (<<"weather-api", "integration">>), (<<"condition", "condition">>),
                 (<<"email", "email">>), (<<"end", "end">>)>>
        /\ \A i \in DOMAIN result.steps : result.steps[i].status = "completed"
        /\ result.status = "completed"
        /\ Has(result.steps[4].output, "conditionMet")
        /\ result.steps[4].output["conditionMet"] = B(TRUE)
        /\ Has(result.steps[5].output, "emailDraft")
        /\ Contains(result.steps[5].output["emailDraft"].m.body, "Sydney")
        /\ Contains(result.steps[5].output["emailDraft"].m.body, "28.5")

C11_Witness ==
    /\ Finished
    /\ SampleScenario
    /\ Len(result.steps) = 6
    /\ result.steps[5].type = "email"
    /\ result.steps[5].status = "completed"

\* C12: an email node with metadata that is handled while conditionMet is in
\* the context with the value false yields a step with the status skipped;
\* the template is not rendered: the output holds no emailDraft, no
\* deliveryStatus and no emailSent.
C12_EmailSkipLaw ==
    \A i \in Handled("email") :
        (/\ ~IsNil(nodeAt(i).meta)
         /\ Has(log[i].before, "conditionMet")
         /\ log[i].before["conditionMet"] = B(FALSE))
        => /\ steps[i].status = "skipped"
           /\ ~Has(steps[i].output, "emailDraft")
           /\ ~Has(steps[i].output, "deliveryStatus")
           /\ ~Has(steps[i].output, "emailSent")

C12_Witness ==
    \E i \in Handled("email") :
        /\ nodeAt(i).meta = EmailMeta
        /\ Has(log[i].before, "conditionMet")
        /\ log[i].before["conditionMet"] = B(FALSE)
        /\ steps[i].status = "skipped"

ValidTemplate(node) ==
    /\ ~IsNil(node.meta)
    /\ Has(Deref(node.meta), "emailTemplate")
    /\ Deref(node.meta)["emailTemplate"].kind = "object"

\* C13: for an email node with a valid emailTemplate the step has the status
\* skipped exactly when conditionMet is in the context and false; when
\* conditionMet is absent or true the template is rendered, the output holds
\* emailDraft and the deliveryStatus "sent", and the step is completed.
C13_EmailGate ==
    \A i \in Handled("email") :
        ValidTemplate(nodeAt(i)) =>
            LET gated == /\ Has(log[i].before, "conditionMet")
                         /\ log[i].before["conditionMet"] = B(FALSE)
            IN /\ (steps[i].status = "skipped") <=> gated
               /\ ~gated => /\ Has(steps[i].output, "emailDraft")
                             /\ Has(steps[i].output, "deliveryStatus")
                             /\ steps[i].output["deliveryStatus"] = S("sent")
                             /\ steps[i].status = "completed"

\* C14: a condition node that succeeds sets conditionMet to
\* temperature > threshold for greater_than, < for less_than, = for equals,
\* >= for greater_than_or_equal, <= for less_than_or_equal, and to
\* temperature > threshold for an operator that is none of these.
C14_ConditionEvaluation ==
    \A i \in Handled("condition") :
        log[i].out.err = "" =>
            LET t == log[i].before["temperature"].n
                op == Deref(input.condition).operator
                th == Deref(input.condition).threshold
                met == log[i].out.output["conditionMet"] = B(TRUE)
            IN /\ log[i].out.output["conditionMet"].t = "bool"
               /\ (op = "greater_than") => (met <=> t > th)
               /\ (op = "less_than") => (met <=> t < th)
               /\ (op = "equals") => (met <=> t = th)
               /\ (op = "greater_than_or_equal") => (met <=> t >= th)
               /\ (op = "less_than_or_equal") => (met <=> t <= th)
               /\ (op \notin {"greater_than", "less_than", "equals",
                               "greater_than_or_equal", "less_than_or_equal"})
                    => (met <=> t > th)

C14_Witness ==
    \E i \in Handled("condition") :
        /\ log[i].out.err = ""
        /\ Deref(input.condition).operator = "between"
        /\ log[i].before["temperature"].n > Deref(input.condition).threshold
        /\ steps[i].output["conditionMet"] = B(TRUE)
        /\ \E j \in DOMAIN steps : steps[j].nodeId = "n3"

\* C15: a condition node fails with "condition configuration is missing" when
\* the input holds no condition, and otherwise with "temperature not found in
\* executeVars or invalid type" when temperature is absent from the context or
\* is not a float64 (a string, an int); when it fails, conditionMet is written
\* neither to the step output nor to the context.
C15_ConditionPreconditions ==
    \A i \in Handled("condition") :
        LET noFloat == \/ ~Has(log[i].before, "temperature")
                       \/ log[i].before["temperature"].t # "float64"
        IN /\ IsNil(input.condition)
                => log[i].out.err = "condition configuration is missing"
           /\ (~IsNil(input.condition) /\ noFloat)
                => log[i].out.err = "temperature not found in executeVars or invalid type"
           /\ (~IsNil(input.condition) /\ ~noFloat) => log[i].out.err = ""
           /\ log[i].out.err # ""
                => /\ steps[i].status = "failed"
                   /\ steps[i].error = log[i].out.err
                   /\ ~Has(steps[i].output, "conditionMet")
                   /\ log[i].after = log[i].before

C15_Witness ==
    \E i \in Handled("condition") :
        /\ ~IsNil(input.condition)
        /\ Has(log[i].before, "temperature")
        /\ log[i].before["temperature"].t = "int"
        /\ steps[i].status = "failed"

ConditionKeys == {"conditionMet", "threshold", "operator", "actualValue", "message"}

\* The edges of a list that a condition result selects: those without a
\* handle, those with "true" when it is met, with "false" when it is not.
SelectedBy(edges, met) ==
    SelectSeq(edges, LAMBDA e : \/ IsNil(e.sourceHandle)
                                \/ Deref(e.sourceHandle) = "true" /\ met
                                \/ Deref(e.sourceHandle) = "false" /\ ~met)

\* C16: after a condition node succeeds, the keys conditionMet, threshold,
\* operator, actualValue and message hold the same values in the step output
\* and in the context, and the edges followed out of the node are those that
\* this conditionMet selects.
C16_ConditionWriteBack ==
    \A i \in Handled("condition") :
        log[i].out.err = "" =>
            /\ \A k \in ConditionKeys :
                    /\ Has(steps[i].output, k)
                    /\ Has(log[i].after, k)
                    /\ steps[i].output[k] = log[i].after[k]
            /\ steps[i].output["conditionMet"].t = "bool"
            /\ log[i].followed
                 = SelectedBy(adjacencyList(workflow, log[i].id),
                              steps[i].output["conditionMet"] = B(TRUE))

C16_Witness ==
    \E i \in Handled("condition") :
        /\ log[i].out.err = ""
        /\ log[i].after["conditionMet"] = B(FALSE)
        /\ \E e \in SeqToSet(log[i].followed) : e.sourceHandle = Some("false")
        /\ \E e \in SeqToSet(adjacencyList(workflow, log[i].id)) :
              e.sourceHandle = Some("true")

\* The integration node handled as i-th gets as far as the option selection:
\* it has metadata with a list of input variables that are all in the
\* context, and a list of options.
ReachesSelection(i) ==
    /\ ~IsNil(nodeAt(i).meta)
    /\ Has(Deref(nodeAt(i).meta), "inputVariables")
    /\ Deref(nodeAt(i).meta)["inputVariables"].kind = "list"
    /\ \A v \in SeqToSet(Deref(nodeAt(i).meta)["inputVariables"].items) :
            v.t = "string" => Has(log[i].before, v.s)
    /\ Has(Deref(nodeAt(i).meta), "options")
    /\ Deref(nodeAt(i).meta)["options"].kind = "list"

\* The j-th option holds every required input variable with the value the
\* context has for it.
Matching(i, j) ==
    LET opt == Deref(nodeAt(i).meta)["options"].items[j] IN
    /\ opt.t = "map"
    /\ \A v \in SeqToSet(Deref(nodeAt(i).meta)["inputVariables"].items) :
            v.t = "string" => (Has(opt.m, v.s) /\ opt.m[v.s] = log[i].before[v.s])

HasEndpoint(i) ==
    /\ Has(Deref(nodeAt(i).meta), "apiEndpoint")
    /\ Deref(nodeAt(i).meta)["apiEndpoint"].kind = "string"

\* C17: the integration handler selects the first option of the list in which
\* every required input variable is present with the value of the context,
\* and the URL it calls is the endpoint with that option substituted; when no
\* option matches it fails with "no matching option found" and calls nothing.
C17_OptionSelection ==
    \A i \in Handled("integration") :
        ReachesSelection(i) =>
            LET opts == Deref(nodeAt(i).meta)["options"].items
                matching == {j \in DOMAIN opts : Matching(i, j)}
            IN /\ (matching = {})
                    => /\ log[i].out.err = "no matching option found for input values"
                       /\ IsNil(log[i].call)
                       /\ steps[i].status = "failed"
               /\ (matching # {})
                    => /\ log[i].out.err # "no matching option found for input values"
                       /\ HasEndpoint(i) =>
                            \E j \in matching :
                                /\ \A k \in matching : j <= k
                                /\ log[i].call
                                     = Some(ReplaceAll(
                                            Deref(nodeAt(i).meta)["apiEndpoint"].toks,
                                            opts[j].m))

C17_Witness ==
    \E i \in Handled("integration") :
        /\ nodeAt(i).meta = IntegrationMetaTwoMatches
        /\ Has(log[i].before, "city")
        /\ log[i].before["city"] = S("Sydney")
        /\ log[i].call = Some(<<Lit("http://weather/"), Lit("Sydney"), Lit("/"), Lit("a")>>)
        /\ steps[i].status = "completed"

\* The case of the options [{city: Sydney}, {city: Melbourne}] with the city
\* Brisbane.
NoOptionForBrisbane ==
    \E i \in Handled("integration") :
        /\ nodeAt(i).meta = IntegrationMeta
        /\ Has(log[i].before, "city")
        /\ log[i].before["city"] = S("Brisbane")
        /\ log[i].out.err = "no matching option found for input values"
        /\ IsNil(log[i].call)

\* The integration node handled as i-th has metadata whose keys are keys of
\* the mock's metadata with the same values (options Sydney and Melbourne),
\* and the context holds the city Sydney.
SydneyCase(i) ==
    /\ ~IsNil(nodeAt(i).meta)
    /\ \A k \in DOMAIN Deref(nodeAt(i).meta) :
            /\ Has(Deref(IntegrationMeta), k)
            /\ Deref(nodeAt(i).meta)[k] = Deref(IntegrationMeta)[k]
    /\ Has(log[i].before, "city")
    /\ log[i].before["city"] = S("Sydney")

RequiredKeys == <<"inputVariables", "options", "apiEndpoint">>
SydneyURL == Some(<<Lit("http://weather/"), Lit("Sydney")>>)
FailsBeforeCall(i) == log[i].out.err # "" /\ IsNil(log[i].call)

\* C18 as stated: with the options Sydney and Melbourne and the city Sydney
\* the integration handler fails before the call only if none of
\* inputVariables, apiEndpoint and options is in the metadata, and otherwise
\* issues a GET to the URL with Sydney substituted.
C18_FailsOnlyIfNonePresent ==
    \A i \in Handled("integration") :
        SydneyCase(i) =>
            LET nonePresent == \A k \in SeqToSet(RequiredKeys) :
                                    ~Has(Deref(nodeAt(i).meta), k)
            IN /\ FailsBeforeCall(i) => nonePresent
               /\ ~nonePresent => log[i].call = SydneyURL

\* C18, amended: with the options Sydney and Melbourne and the city Sydney
\* the integration handler fails before the call exactly when one of
\* inputVariables, options and apiEndpoint is not in the metadata, with the
\* error of the first of them, in this order, that is not there; otherwise it
\* issues a GET to the URL with Sydney substituted.
C18_FailsIfAnyMissing ==
    \A i \in Handled("integration") :
        SydneyCase(i) =>
            LET absent == SelectSeq(RequiredKeys,
                                    LAMBDA k : ~Has(Deref(nodeAt(i).meta), k))
            IN /\ (absent # <<>>)
                    => /\ FailsBeforeCall(i)
                       /\ log[i].out.err
                            = "integration node missing " \o Head(absent) \o " in metadata"
                       /\ steps[i].status = "failed"
               /\ (absent = <<>>) => log[i].call = SydneyURL

C18_Witness ==
    \E i \in Handled("integration") :
        /\ SydneyCase(i)
        /\ Has(Deref(nodeAt(i).meta), "inputVariables")
        /\ Has(Deref(nodeAt(i).meta), "options")
        /\ ~Has(Deref(nodeAt(i).meta), "apiEndpoint")
        /\ FailsBeforeCall(i)
        /\ steps[i].error = "integration node missing apiEndpoint in metadata"

\* C19: when the endpoint answers with a status that is not 2xx, the
\* integration handler fails with "API returned status <code>", the step is
\* failed, and nothing of the response is written to the step output or to
\* the context.
C19_Non2xxFails ==
    \A i \in Handled("integration") :
        (log[i].resp.kind = "response" /\ log[i].resp.status \notin 200..299)
        => /\ log[i].out.err = "API returned status " \o ToString(log[i].resp.status)
           /\ steps[i].status = "failed"
           /\ DOMAIN steps[i].output \subseteq {"message"}
           /\ log[i].after = log[i].before

\* The form node handled as i-th has no metadata, or metadata that declare no
\* outputVariables.
DeclaresNoOutput(i) ==
    IsNil(nodeAt(i).meta) \/ ~Has(Deref(nodeAt(i).meta), "outputVariables")

FormOnEmptyContext ==
    \E i \in Handled("form") :
        DeclaresNoOutput(i) /\ log[i].before = EmptyMap /\ steps[i].status = "completed"

\* The form node handled as i-th has metadata that declare outputVariables.
DeclaresOutput(i) ==
    ~IsNil(nodeAt(i).meta) /\ Has(Deref(nodeAt(i).meta), "outputVariables")

\* C21: for a form node whose metadata declare outputVariables as a list, the
\* keys of the handler's output are exactly the strings of the list (other
\* elements are ignored, an empty list gives an empty output); a name of the
\* context has its value, a name the context lacks has null.  When
\* outputVariables is no list the handler fails with "outputVariables must be
\* an array".
C21_FormFiltering ==
    \A i \in Handled("form") :
        DeclaresOutput(i) =>
            LET declared == Deref(nodeAt(i).meta)["outputVariables"] IN
            IF declared.kind = "list"
            THEN /\ log[i].out.err = ""
                 /\ DOMAIN log[i].out.output
                      = {v.s : v \in {w \in SeqToSet(declared.items) : w.t = "string"}}
                 /\ \A k \in DOMAIN log[i].out.output :
                        log[i].out.output[k]
                         = IF Has(log[i].before, k) THEN log[i].before[k] ELSE Null
                 /\ steps[i].status = "completed"
            ELSE /\ log[i].out.err = "outputVariables must be an array"
                 /\ steps[i].status = "failed"
                 /\ steps[i].error = "outputVariables must be an array"

C21_Witness ==
    \E i \in Handled("form") :
        /\ DeclaresOutput(i)
        /\ Deref(nodeAt(i).meta)["outputVariables"].kind = "list"
        /\ \E v \in SeqToSet(Deref(nodeAt(i).meta)["outputVariables"].items) : v.t # "string"
        /\ Has(steps[i].output, "phone")
        /\ steps[i].output["phone"] = Null
        /\ Has(steps[i].output, "temperature")
        /\ steps[i].output["temperature"] = F(285)

\* A form node with an empty list of output variables.
FormWithEmptyList ==
    \E i \in Handled("form") :
        /\ DeclaresOutput(i)
        /\ Deref(nodeAt(i).meta)["outputVariables"] = List(<<>>)
        /\ log[i].before # EmptyMap
        /\ log[i].out.output = EmptyMap

----------------------------------------------------------------------------
(* Two executions of one graph.  HandleExecuteWorkflow decodes each request *)
(* into an input of its own and calls ExecuteWorkflow; the locals of        *)
(* executeWorkflowSteps belong to the call.  Here the variables of the      *)
(* engine are indexed by the execution, executeVars is the heap of the maps *)
(* the contexts live in, and log[e] is the list of the network's answers to *)
(* execution e so far, one for each of its steps.                            *)

Execs == {1, 2}

ExecState(pcArg, vars0, visitedArg, queueArg, stepsArg, resultArg, canceled) ==
    [pc |-> pcArg, executeVars |-> vars0, visited |-> visitedArg, queue |-> queueArg,
     steps |-> stepsArg, result |-> resultArg, ctxCanceled |-> canceled]

\* An execution that has been called and has done nothing yet.
Called(in) ==
    ExecState("call", InitialVars(in), {}, <<>>, <<>>,
              [status |-> "", steps |-> <<>>, err |-> ""], FALSE)

\* One step of ExecuteWorkflow on its own: the entry into the loop, one
\* iteration of the loop, or the return; resp is the network's answer if the
\* step sends a request.
StepAlone(wf, in, st, resp) ==
    IF st.pc = "call"
    THEN IF IsNil(wf.nodes) THEN {[st EXCEPT !.pc = "panic"]}
         ELSE IF FirstStart(Deref(wf.nodes)) = ""
         THEN {[st EXCEPT !.pc = "done",
                          !.result = [status |-> "failed", steps |-> <<>>,
                                      err |-> "no start node found in workflow"]]}
         ELSE {[st EXCEPT !.pc = "loop", !.queue = <<FirstStart(Deref(wf.nodes))>>]}
    ELSE IF st.pc # "loop" THEN {}
    ELSE IF st.queue = <<>>
    THEN {[st EXCEPT !.pc = "done",
                     !.result = [status |-> "completed", steps |-> st.steps, err |-> ""]]}
    ELSE IF Head(st.queue) \in st.visited
    THEN {[st EXCEPT !.queue = Dequeue(st.queue)]}
    ELSE IF ~Has(nodeMap(wf), Head(st.queue))
    THEN {[st EXCEPT !.queue = Dequeue(st.queue),
                     !.visited = MarkVisited(st.visited, Head(st.queue))]}
    ELSE LET currentNodeId == Head(st.queue)
             node == nodeMap(wf)[currentNodeId]
         IN {LET vars1 == VarsAfter(node, out, st.executeVars)
                 followed == FollowedEdges(node, adjacencyList(wf, currentNodeId), vars1)
             IN [st EXCEPT !.visited = MarkVisited(st.visited, currentNodeId),
                           !.executeVars = vars1,
                           !.steps = AppendStep(st.steps, StepOf(node, out, st.executeVars)),
                           !.queue = Enqueue(Dequeue(st.queue), Targets(followed)),
                           !.ctxCanceled = (st.ctxCanceled
                                            \/ (~IsNil(out.call) /\ resp.kind = "canceled"))]
             : out \in HandlerOutcomes(node, st.executeVars, in.condition,
                                       st.ctxCanceled, resp)}

\* Both executions use one map for their context.
ContextAddressShared(e) == 1

\* The map the context of execution e lives in: the form data of its own
\* request, or the map it makes when the request has none.
ContextAddress(e) == e

ConcurrentWorkflows ==
    {SampleWorkflow} \cup {w \in FormWorkflows : IsNil(w.nodes[1][3].meta)}

ConcurrentInputs == SampleInputs \cup FormInputs

ConcurrentResponses ==
    {[kind |-> "error", status |-> 0, body |-> Null],
     [kind |-> "response", status |-> 200, body |-> Weather(285)],
     [kind |-> "response", status |-> 200, body |-> Weather(180)]}

ConcurrentInit ==
    /\ workflow \in ConcurrentWorkflows
    /\ input \in [Execs -> ConcurrentInputs]
    /\ pc = [e \in Execs |-> "call"]
    /\ executeVars = [a \in Execs |-> InitialVars(input[a])]
    /\ visited = [e \in Execs |-> {}]
    /\ queue = [e \in Execs |-> <<>>]
    /\ steps = [e \in Execs |-> <<>>]
    /\ result = [e \in Execs |-> [status |-> "", steps |-> <<>>, err |-> ""]]
    /\ ctxCanceled = [e \in Execs |-> FALSE]
    /\ log = [e \in Execs |-> <<>>]

\* The state of execution e, its context read from the map it lives in.
StateOf(e) ==
    ExecState(pc[e], executeVars[ContextAddress(e)], visited[e], queue[e], steps[e],
              result[e], ctxCanceled[e])

\* The next step of execution e sends a request if it handles an
\* integration node.
SendsRequest(e) ==
    /\ pc[e] = "loop"
    /\ queue[e] # <<>>
    /\ Head(queue[e]) \notin visited[e]
    /\ Has(nodeMap(workflow), Head(queue[e]))
    /\ nodeMap(workflow)[Head(queue[e])].type = "integration"

\* Execution e takes its next step.
ExecStep(e) ==
    /\ \E resp \in (IF SendsRequest(e) THEN ConcurrentResponses ELSE {NoResponse}) :
       \E next \in StepAlone(workflow, input[e], StateOf(e), resp) :
          /\ pc' = [pc EXCEPT ![e] = next.pc]
          /\ executeVars' = [executeVars EXCEPT ![ContextAddress(e)] = next.executeVars]
          /\ visited' = [visited EXCEPT ![e] = next.visited]
          /\ queue' = [queue EXCEPT ![e] = next.queue]
          /\ steps' = [steps EXCEPT ![e] = next.steps]
          /\ result' = [result EXCEPT ![e] = next.result]
          /\ ctxCanceled' = [ctxCanceled EXCEPT ![e] = next.ctxCanceled]
          /\ log' = [log EXCEPT ![e] = Append(@, resp)]
    /\ UNCHANGED <<workflow, input>>

ConcurrentNext == \E e \in Execs : ExecStep(e)

ConcurrentSpec == ConcurrentInit /\ [][ConcurrentNext]_vars

\* The states an execution is in when it runs alone and the network answers
\* its steps with resps.
RECURSIVE Replay(_, _, _, _)
Replay(wf, in, states, resps) ==
    IF resps = <<>> THEN states
    ELSE Replay(wf, in, UNION {StepAlone(wf, in, st, Head(resps)) : st \in states},
                Tail(resps))

Alone(e) == Replay(workflow, input[e], {Called(input[e])}, log[e])

Gated(i) ==
    Has(log[i].before, "conditionMet") /\ log[i].before["conditionMet"] = B(FALSE)

\* The error an email node's metadata call for, "" when they are as required.
TemplateError(meta) ==
    IF IsNil(meta) THEN "email node missing metadata"
    ELSE IF ~Has(Deref(meta), "emailTemplate")
    THEN "email node missing emailTemplate in metadata"
    ELSE IF Deref(meta)["emailTemplate"].kind # "object"
    THEN "emailTemplate must be an object"
    ELSE ""

\* C23 as stated: an email node without metadata, with metadata that lack
\* emailTemplate, or with an emailTemplate that is no object yields a failed
\* step with the error of its case, whatever the context and the value of
\* conditionMet in it.
C23_EmailRequiresTemplate ==
    \A i \in Handled("email") :
        TemplateError(nodeAt(i).meta) # ""
        => /\ steps[i].status = "failed"
           /\ steps[i].error = TemplateError(nodeAt(i).meta)

\* C23, amended: an email node without metadata yields a failed step in every
\* context; with metadata that lack emailTemplate or hold one that is no
\* object it yields a failed step with the error of its case unless
\* conditionMet is in the context and false: then the template is not looked
\* at and the step is skipped, without an error.
C23_EmailRequiresTemplateUnlessGated ==
    \A i \in Handled("email") :
        TemplateError(nodeAt(i).meta) # ""
        => IF IsNil(nodeAt(i).meta) \/ ~Gated(i)
           THEN /\ steps[i].status = "failed"
                /\ steps[i].error = TemplateError(nodeAt(i).meta)
                /\ ~Has(steps[i].output, "emailDraft")
           ELSE /\ steps[i].status = "skipped"
                /\ steps[i].error = ""

C23_Witness ==
    \E i \in Handled("email") :
        /\ TemplateError(nodeAt(i).meta) = "email node missing emailTemplate in metadata"
        /\ Gated(i)
        /\ steps[i].status = "skipped"

\* An email node whose template is no object, handled while conditionMet is
\* true.
TemplateNoObjectFails ==
    \E i \in Handled("email") :
        /\ TemplateError(nodeAt(i).meta) = "emailTemplate must be an object"
        /\ Has(log[i].before, "conditionMet")
        /\ log[i].before["conditionMet"] = B(TRUE)
        /\ steps[i].status = "failed"

\* A rendered text is the text of a template in a context: of the same
\* length, a placeholder whose name is a key of the context replaced by the
\* string form of the value, every other piece as it was.
Renders(rendered, template, context) ==
    /\ Len(rendered) = Len(template)
    /\ \A k \in DOMAIN template :
          IF template[k].ph /\ Has(context, template[k].s)
          THEN ~rendered[k].ph /\ rendered[k].s = Sprint(context[template[k].s])
          ELSE rendered[k] = template[k]

RenderedWithoutRecipient ==
    \E i \in Handled("email") :
        /\ Has(steps[i].output, "emailDraft")
        /\ ~Has(log[i].before, "email")
        /\ steps[i].output["emailDraft"].m.to = ""

\* The graph has exactly one node of type start and no edge.
OneStartNoEdges ==
    /\ ~IsNil(workflow.nodes)
    /\ Cardinality({k \in DOMAIN Deref(workflow.nodes) :
                        Deref(workflow.nodes)[k].type = "start"}) = 1
    /\ (IsNil(workflow.edges) \/ Deref(workflow.edges) = <<>>)

\* C25: on a graph with exactly one start node and no edges, whatever its
\* other nodes, the run returns exactly one step: that of the start node,
\* with the status completed.
C25_SingleStartNoEdges ==
    (OneStartNoEdges /\ pc = "done") =>
        /\ Len(result.steps) = 1
        /\ result.steps[1].type = "start"
        /\ result.steps[1].status = "completed"
        /\ \E k \in DOMAIN Deref(workflow.nodes) :
              /\ Deref(workflow.nodes)[k].type = "start"
              /\ Deref(workflow.nodes)[k].id = result.steps[1].nodeId

----------------------------------------------------------------------------
(* HandleExecuteWorkflow: one request to the execute endpoint.  The body is *)
(* decoded, ExecuteWorkflow loads the workflow from the database, maps it   *)
(* and runs the engine on it, and the handler answers.  Here input is the   *)
(* body of the request, log holds what the database has for the id and the  *)
(* reads made of it, and result becomes the answer of the handler.          *)

WorkflowId == "550e8400"
InvalidBody == [body |-> "invalid json"]

\* What GetWorkflowByID finds: no row, an error of the database, or a row
\* with its nodes and edges as loaded; the id of a row may be no UUID.
NotFoundError == "workflow not found: " \o WorkflowId
FetchError == "failed to fetch workflow: connection refused"

Database ==
    {[kind |-> "notfound", uuid |-> TRUE, graph |-> [nodes |-> None, edges |-> None]],
     [kind |-> "error", uuid |-> TRUE, graph |-> [nodes |-> None, edges |-> None]]}
    \cup {[kind |-> "row", uuid |-> u, graph |-> g]
            : u \in BOOLEAN, g \in {SampleWorkflow} \cup DegenerateGraphs}

RequestBodies == {InvalidBody} \cup SampleInputs \cup DegenerateInputs

HandlerInit ==
    /\ workflow = [nodes |-> None, edges |-> None]
    /\ input \in RequestBodies
    /\ pc = "request"
    /\ executeVars = EmptyMap
    /\ visited = {}
    /\ queue = <<>>
    /\ steps = <<>>
    /\ result = [status |-> "", steps |-> <<>>, err |-> ""]
    /\ ctxCanceled = FALSE
    /\ log \in {[db |-> d, reads |-> <<>>] : d \in Database}

Answer(code, body) == [code |-> code, body |-> body]

\* The answer to an error of ExecuteWorkflow: 404 when its message is that of
\* a workflow that was not found, 500 for every other.
AnswerToError(err) ==
    IF err = "workflow not found: workflow not found: " \o WorkflowId
    THEN Answer(404, "Workflow not found")
    ELSE Answer(500, "Failed to execute workflow")

\* The body is not decodable: 400, and ExecuteWorkflow is not called.
DecodeFails ==
    /\ pc = "request"
    /\ input = InvalidBody
    /\ pc' = "responded"
    /\ result' = Answer(400, "Invalid request body")
    /\ UNCHANGED <<workflow, input, executeVars, visited, queue, steps, ctxCanceled, log>>

\* GetWorkflowByID returns an error, which ExecuteWorkflow wraps.
LookupFails ==
    /\ pc = "request"
    /\ input # InvalidBody
    /\ log.db.kind \in {"notfound", "error"}
    /\ pc' = "responded"
    /\ result' = AnswerToError("workflow not found: "
                                \o (IF log.db.kind = "notfound" THEN NotFoundError
                                    ELSE FetchError))
    /\ log' = [log EXCEPT !.reads = Append(@, "db")]
    /\ UNCHANGED <<workflow, input, executeVars, visited, queue, steps, ctxCanceled>>

\* MapDBWorkflowToAPI fails on the id of the row.
MappingFails ==
    /\ pc = "request"
    /\ input # InvalidBody
    /\ log.db.kind = "row"
    /\ ~log.db.uuid
    /\ pc' = "responded"
    /\ result' = AnswerToError("failed to map workflow: invalid workflow ID format")
    /\ log' = [log EXCEPT !.reads = Append(@, "db")]
    /\ UNCHANGED <<workflow, input, executeVars, visited, queue, steps, ctxCanceled>>

\* The workflow is loaded and mapped: executeWorkflowSteps is called on it.
Load ==
    /\ pc = "request"
    /\ input # InvalidBody
    /\ log.db.kind = "row"
    /\ log.db.uuid
    /\ pc' = "call"
    /\ workflow' = log.db.graph
    /\ executeVars' = InitialVars(input)
    /\ log' = [log EXCEPT !.reads = Append(@, "db")]
    /\ UNCHANGED <<input, visited, queue, steps, result, ctxCanceled>>

\* One step of the engine.
EngineStep ==
    /\ pc \in {"call", "loop"}
    /\ \E resp \in Responses :
       \E next \in StepAlone(workflow, input,
                              ExecState(pc, executeVars, visited, queue, steps, result,
                                        ctxCanceled), resp) :
          /\ pc' = next.pc
          /\ executeVars' = next.executeVars
          /\ visited' = next.visited
          /\ queue' = next.queue
          /\ steps' = next.steps
          /\ result' = next.result
          /\ ctxCanceled' = next.ctxCanceled
    /\ UNCHANGED <<workflow, input, log>>

\* ExecuteWorkflow has returned its result: 200 with the result.
Respond ==
    /\ pc = "done"
    /\ pc' = "responded"
    /\ result' = Answer(200, result)
    /\ UNCHANGED <<workflow, input, executeVars, visited, queue, steps, ctxCanceled, log>>

HandlerNext ==
    \/ DecodeFails
    \/ LookupFails
    \/ MappingFails
    \/ Load
    \/ EngineStep
    \/ Respond

HandlerSpec == HandlerInit /\ [][HandlerNext]_vars

\* The request is over: answered, or ended by a panic.
RequestOver == pc \in {"responded", "panic"}

\* C26: the execute endpoint answers 400 "Invalid request body" to a body
\* that cannot be decoded, without a read of the cache or the database; 404
\* "Workflow not found" when the lookup reports that the workflow is not
\* found; 500 "Failed to execute workflow" for every other error of the
\* lookup or the mapping; and 200 with the result of the execution in every
\* other case.
C26_ExecuteEndpoint ==
    RequestOver =>
        IF input = InvalidBody
        THEN result = Answer(400, "Invalid request body") /\ log.reads = <<>>
        ELSE IF log.db.kind = "notfound"
        THEN result = Answer(404, "Workflow not found")
        ELSE IF log.db.kind = "error" \/ ~log.db.uuid
        THEN result = Answer(500, "Failed to execute workflow")
        ELSE /\ pc = "responded"
             /\ result.code = 200
             /\ result.body.steps = steps
             /\ result.body.status \in {"completed", "failed"}

----------------------------------------------------------------------------
\* The steps of the condition nodes whose handler failed.
FailedConditions ==
    {i \in Handled("condition") : steps[i].status = "failed"}

\* C27: when the handler of a condition node fails, the edges out of the node
\* are still selected through the conditionMet of the context: a boolean that
\* is already there decides the branch ("true" edges when it is true, "false"
\* edges when it is false, unhandled edges always), and when there is none
\* only the "false" and the unhandled edges are followed.
C27_FailedConditionBranches ==
    \A i \in FailedConditions :
        LET edges == adjacencyList(workflow, log[i].id)
            there == Has(log[i].before, "conditionMet")
        IN  /\ log[i].after = log[i].before
            /\ there /\ log[i].before["conditionMet"] = B(TRUE) =>
                  log[i].followed =
                      SelectSeq(edges, LAMBDA e : e.sourceHandle \in {None, Some("true")})
            /\ there /\ log[i].before["conditionMet"] = B(FALSE) =>
                  log[i].followed =
                      SelectSeq(edges, LAMBDA e : e.sourceHandle \in {None, Some("false")})
            /\ ~there =>
                  log[i].followed =
                      SelectSeq(edges, LAMBDA e : e.sourceHandle \in {None, Some("false")})

\* A condition node failed with conditionMet true in the context, its "true"
\* edge was followed and the node behind it has its step.
C27_Witness ==
    /\ Finished
    /\ \E i \in FailedConditions :
          /\ Has(log[i].before, "conditionMet")
          /\ log[i].before["conditionMet"] = B(TRUE)
          /\ \E k \in DOMAIN log[i].followed :
                /\ log[i].followed[k].sourceHandle = Some("true")
                /\ \E j \in DOMAIN steps :
                      j > i /\ steps[j].nodeId = log[i].followed[k].target

\* A condition node left conditionMet in the context and a later condition
\* node failed and took its branch from it.
FailedAfterEarlierCondition ==
    \E i \in FailedConditions : \E j \in Handled("condition") :
        /\ j < i
        /\ steps[j].status = "completed"
        /\ ~Has(log[j].before, "conditionMet")
        /\ Has(log[i].before, "conditionMet")

----------------------------------------------------------------------------
\* The steps of the nodes that may write to the context: the integration and
\* the condition nodes whose handler succeeded.
Writers ==
    {i \in Handled("integration") \cup Handled("condition") :
        steps[i].status = "completed"}

\* C28: only a successful integration node and a successful condition node
\* write to the variable context: a start, form, email, end or unknown-type
\* node, and every node whose handler fails, leaves the context exactly as
\* it was before the node.
C28_ContextWritesConfined ==
    \A i \in DOMAIN log :
        i \notin Writers => log[i].after = log[i].before

\* An integration node wrote the temperature, and after it an email node was
\* completed with an output of its own and left the context as it was.
C28_Witness ==
    \E i \in Writers : \E j \in Handled("email") :
        /\ i < j
        /\ log[i].after # log[i].before
        /\ steps[j].status = "completed"
        /\ \E k \in DOMAIN steps[j].output : ~Has(log[j].before, k)
        /\ log[j].after = log[j].before

\* A node of an unknown type was handled.
UnknownTypeHandled ==
    \E i \in DOMAIN log : nodeAt(i).type \notin
        {"start", "form", "integration", "condition", "email", "end"}

\* An integration node failed after its request was answered, with
\* variables in the context.
FailedIntegrationHandled ==
    \E i \in Handled("integration") :
        /\ steps[i].status = "failed"
        /\ log[i].resp.kind = "response"
        /\ log[i].before # EmptyMap

----------------------------------------------------------------------------
\* The form-data mapping of the caller as the caller finds it: input is the
\* bundle as it was passed, and executeVars is that very mapping once the
\* engine has taken it from a form-data pointer that is not nil, so every
\* write to executeVars is a write to the mapping of the caller.
CallerFormData ==
    IF IsNil(input.formData) \/ pc = "call"
    THEN input.formData
    ELSE Some(executeVars)

\* C29: the variable context is created fresh for the execution: a run never
\* modifies the input bundle of the caller, and after the run the form-data
\* mapping that was passed holds exactly the entries it held before, with no
\* temperature, conditionMet or message added.
C29_InputUntouched ==
    Finished => CallerFormData = input.formData

----------------------------------------------------------------------------
\* C30: every step has the status completed, failed or skipped; a step
\* carries an error message if and only if its status is failed; and the
\* status skipped occurs on email steps only.
C30_StepStatus ==
    \A i \in DOMAIN steps :
        /\ steps[i].status \in {"completed", "failed", "skipped"}
        /\ steps[i].error # "" <=> steps[i].status = "failed"
        /\ steps[i].status = "skipped" => steps[i].type = "email"

\* A finished run with a failed step, a skipped email step and a completed
\* step.
C30_Witness ==
    /\ pc = "done"
    /\ \E i, j, k \in DOMAIN steps :
          /\ steps[i].status = "failed" /\ steps[i].error # ""
          /\ steps[j].status = "skipped" /\ steps[j].type = "email"
          /\ steps[k].status = "completed" /\ steps[k].error = ""

\* An email step was completed.
EmailCompleted ==
    \E i \in Handled("email") : steps[i].status = "completed"

----------------------------------------------------------------------------
\* The checks that processIntegrationNode makes on the node handled as i-th,
\* in the order of the code, each with the error of its failure.
MetaOf(i) == Deref(nodeAt(i).meta)
InputNamesOf(i) ==
    {v.s : v \in {x \in SeqToSet(MetaOf(i)["inputVariables"].items) : x.t = "string"}}

HasMetadata(i) == ~IsNil(nodeAt(i).meta)
InputsAreList(i) ==
    Has(MetaOf(i), "inputVariables") /\ MetaOf(i)["inputVariables"].kind = "list"
InputsExist(i) == \A name \in InputNamesOf(i) : Has(log[i].before, name)
OptionsAreList(i) == Has(MetaOf(i), "options") /\ MetaOf(i)["options"].kind = "list"
OptionMatching(i) == \E j \in DOMAIN MetaOf(i)["options"].items : Matching(i, j)

Validated(i) ==
    /\ HasMetadata(i)
    /\ InputsAreList(i)
    /\ InputsExist(i)
    /\ OptionsAreList(i)
    /\ OptionMatching(i)
    /\ HasEndpoint(i)

\* The errors a failed check may be answered with.
ValidationErrors(i) ==
    IF ~HasMetadata(i) THEN {"integration node missing metadata"}
    ELSE IF ~InputsAreList(i)
    THEN {"integration node missing inputVariables in metadata",
          "inputVariables must be an array"}
    ELSE IF ~InputsExist(i)
    THEN {"required input variable '" \o name \o "' not found in executeVars"
            : name \in {n \in InputNamesOf(i) : ~Has(log[i].before, n)}}
    ELSE IF ~OptionsAreList(i)
    THEN {"integration node missing options in metadata", "options must be an array"}
    ELSE IF ~OptionMatching(i) THEN {"no matching option found for input values"}
    ELSE {"integration node missing apiEndpoint in metadata", "apiEndpoint must be a string"}

\* C31: the integration handler issues its GET only after the metadata
\* exist, inputVariables is a list, every named input variable is in the
\* context, options is a list with a matching option and apiEndpoint is a
\* string; if one of these fails the handler returns the error of that check
\* and makes no call.
C31_ValidationBeforeCall ==
    \A i \in Handled("integration") :
        /\ ~IsNil(log[i].call) => Validated(i)
        /\ ~Validated(i) =>
              /\ IsNil(log[i].call)
              /\ log[i].resp = NoResponse
              /\ log[i].out.err \in ValidationErrors(i)
              /\ steps[i].status = "failed"

\* A GET was issued for a node that passed every check, and answered.
C31_Witness ==
    \E i \in Handled("integration") :
        /\ Validated(i)
        /\ InputNamesOf(i) # {}
        /\ ~IsNil(log[i].call)
        /\ log[i].resp.kind = "response"

\* The metadata are complete, an input variable is not in the context, and
\* no call is made.
MissingInputNoCall ==
    \E i \in Handled("integration") :
        /\ HasMetadata(i) /\ InputsAreList(i) /\ ~InputsExist(i)
        /\ OptionsAreList(i) /\ HasEndpoint(i)
        /\ IsNil(log[i].call)

\* The endpoint is the last check: everything before it holds, it is not a
\* string, and no call is made.
EndpointNotStringNoCall ==
    \E i \in Handled("integration") :
        /\ HasMetadata(i) /\ InputsAreList(i) /\ InputsExist(i)
        /\ OptionsAreList(i) /\ OptionMatching(i)
        /\ Has(MetaOf(i), "apiEndpoint")
        /\ log[i].out.err = "apiEndpoint must be a string"
        /\ IsNil(log[i].call)

----------------------------------------------------------------------------
Unhandled(edges) == SelectSeq(edges, LAMBDA e : e.sourceHandle = None)

\* C32: an outgoing edge of a condition node that has no source handle is
\* followed whatever conditionMet is, and every outgoing edge of a node that
\* is not a condition node is followed whatever its source handle and
\* whatever the status of the node's step.
C32_EdgeFollowing ==
    \A i \in DOMAIN log :
        LET edges == adjacencyList(workflow, log[i].id) IN
        IF nodeAt(i).type = "condition"
        THEN Unhandled(log[i].followed) = Unhandled(edges)
        ELSE log[i].followed = edges

\* An email node was skipped, its edge with the handle "false" or "maybe"
\* was followed and the node behind the edge has its step.
C32_Witness ==
    \E i \in Handled("email") :
        /\ steps[i].status = "skipped"
        /\ \E k \in DOMAIN log[i].followed :
              /\ log[i].followed[k].sourceHandle \in {Some("false"), Some("maybe")}
              /\ \E j \in DOMAIN steps :
                    j > i /\ steps[j].nodeId = log[i].followed[k].target

\* An unhandled edge was followed out of a condition node whose condition
\* was met, and out of one whose condition was not met.
UnhandledFollowedMet ==
    \E i \in Handled("condition") :
        /\ steps[i].status = "completed"
        /\ AsBool(log[i].after, "conditionMet")
        /\ Unhandled(log[i].followed) # <<>>
        /\ log[i].followed # adjacencyList(workflow, log[i].id)

UnhandledFollowedUnmet ==
    \E i \in Handled("condition") :
        /\ steps[i].status = "completed"
        /\ ~AsBool(log[i].after, "conditionMet")
        /\ Unhandled(log[i].followed) # <<>>
        /\ log[i].followed # adjacencyList(workflow, log[i].id)

\* An edge with a source handle was followed out of a failed node, and out of
\* a completed node, that is not a condition node.
HandledEdgeOfFailedNode ==
    \E i \in DOMAIN log :
        /\ nodeAt(i).type # "condition"
        /\ steps[i].status = "failed"
        /\ \E k \in DOMAIN log[i].followed : log[i].followed[k].sourceHandle # None

HandledEdgeOfCompletedNode ==
    \E i \in DOMAIN log :
        /\ nodeAt(i).type # "condition"
        /\ steps[i].status = "completed"
        /\ \E k \in DOMAIN log[i].followed : log[i].followed[k].sourceHandle # None

----------------------------------------------------------------------------
\* C33: an outgoing edge of a condition node whose source handle is a value
\* other than "true" and "false" is never followed, in any run and for any
\* value of conditionMet.
C33_OtherHandleNeverFollowed ==
    \A i \in Handled("condition") :
        \A k \in DOMAIN log[i].followed :
            log[i].followed[k].sourceHandle \in {None, Some("true"), Some("false")}

\* A condition node with an edge of the handle "maybe" was handled with its
\* condition met (C33_Witness) and with its condition not met
\* (OtherHandleUnmet); another edge of the node was followed.
C33_Witness ==
    \E i \in Handled("condition") :
        /\ \E e \in SeqToSet(adjacencyList(workflow, log[i].id)) :
              e.sourceHandle = Some("maybe")
        /\ AsBool(log[i].after, "conditionMet")
        /\ log[i].followed # <<>>

OtherHandleUnmet ==
    \E i \in Handled("condition") :
        /\ \E e \in SeqToSet(adjacencyList(workflow, log[i].id)) :
              e.sourceHandle = Some("maybe")
        /\ IsBool(log[i].after, "conditionMet")
        /\ ~AsBool(log[i].after, "conditionMet")
        /\ log[i].followed # <<>>

----------------------------------------------------------------------------
\* The ids that were dequeued and are no node of the graph.
Missing == visited \ Defined

\* C34: when an edge leads to an id that is no defined node the run does not
\* fail: the id is dropped from the queue with no step and with no edge
\* followed from it, and the nodes still in the queue are handled as usual,
\* so that at the end every defined node behind a followed edge has its step.
C34_MissingNodeTolerated ==
    /\ [](/\ Missing \cap StepIds = {}
          /\ \A e \in FollowedSoFar : e.source \notin Missing
          /\ (pc = "done" /\ Missing # {}) =>
                /\ result.err = ""
                /\ result.steps = steps
                /\ \A e \in FollowedSoFar : e.target \in Defined => e.target \in StepIds)
    /\ [][(pc = "loop" /\ queue # <<>> /\ Head(queue) \notin visited
            /\ Head(queue) \notin Defined)
           => /\ pc' = "loop"
              /\ queue' = Tail(queue)
              /\ steps' = steps
              /\ executeVars' = executeVars
              /\ log' = log]_vars

\* The id nx was dropped, the node n2 that was behind it in the queue has its
\* step, and the node n3 that only nx leads to has none.
C34_Witness ==
    /\ Finished
    /\ workflow \in DanglingWorkflows
    /\ Missing = {"nx"}
    /\ StepIds = {"n1", "n2"}

----------------------------------------------------------------------------
KnownTypes == {"start", "form", "integration", "condition", "email", "end"}

\* C35: a node whose type is none of start, form, integration, condition,
\* email and end gets a step with the status completed and an empty output,
\* and all its outgoing edges are followed.
C35_UnknownType ==
    \A i \in DOMAIN log :
        nodeAt(i).type \notin KnownTypes =>
            /\ steps[i].status = "completed"
            /\ steps[i].error = ""
            /\ steps[i].output = EmptyMap
            /\ log[i].followed = adjacencyList(workflow, log[i].id)

\* A node of the type delay was handled, its edge with the handle "true" was
\* followed with no conditionMet in the context and the node behind it has
\* its step.
C35_Witness ==
    \E i \in DOMAIN log :
        /\ nodeAt(i).type = "delay"
        /\ ~Has(log[i].after, "conditionMet")
        /\ \E k \in DOMAIN log[i].followed :
              /\ log[i].followed[k].sourceHandle = Some("true")
              /\ \E j \in DOMAIN steps :
                    j > i /\ steps[j].nodeId = log[i].followed[k].target

----------------------------------------------------------------------------
(* findValueInMap on its own: the integration handler searches a decoded   *)
(* response for one name.  Here input is the response object and the name, *)
(* log the candidates in the order they were collected, result the value   *)
(* returned and executeVars the output of the handler.                     *)

SearchedKey == "temperature"
MaxSearchDepth == 2

\* What a field of the searched name may hold at a depth: a JSON number, a
\* string or null, each telling its depth.
Leaves(depth) == {Num(300 + depth), S("hot" \o ToString(depth)), Null}

\* Objects nested through the field "data" down to depth 3, one deeper than
\* the search goes, with the searched name in them or not.
RECURSIVE Nested(_)
Nested(depth) ==
    LET own == {EmptyMap} \cup {[temperature |-> v] : v \in Leaves(depth)}
    IN  IF depth = MaxSearchDepth + 1 THEN own
        ELSE own \cup {Put(o, "data", M(n)) : o \in own, n \in Nested(depth + 1)}

\* The responses: such an object, alone or with a second nested object
\* "daily" beside "data", which holds the searched name as well.
ExtractResponses ==
    Nested(0)
    \cup {Put(o, "daily", M([temperature |-> v]))
            : o \in Nested(0), v \in {Num(180), S("cold"), Null}}

ExtractInit ==
    /\ workflow = [nodes |-> None, edges |-> None]
    /\ input \in {[data |-> d, key |-> SearchedKey] : d \in ExtractResponses}
    /\ pc = "call"
    /\ executeVars = EmptyMap
    /\ visited = {}
    /\ queue = <<>>
    /\ steps = <<>>
    /\ result = Null
    /\ ctxCanceled = FALSE
    /\ log = <<>>

\* findValueInMapHelper collects the candidates, in one of the orders in
\* which the fields of the objects may be ranged over.
Collect ==
    /\ pc = "call"
    /\ \E candidates \in findValueInMapHelper(input.data, input.key, 0, MaxSearchDepth) :
          log' = candidates
    /\ pc' = "collected"
    /\ UNCHANGED <<workflow, input, executeVars, visited, queue, steps, result, ctxCanceled>>

\* findValueInMap returns the first numeric candidate, else the first one.
Prefer ==
    /\ pc = "collected"
    /\ result' = PreferNumeric(log)
    /\ pc' = "returned"
    /\ UNCHANGED <<workflow, input, executeVars, visited, queue, steps, ctxCanceled, log>>

\* The handler puts the value in its output unless it is nil.
Assign ==
    /\ pc = "returned"
    /\ executeVars' = IF result # Null THEN Put(executeVars, input.key, result)
                      ELSE executeVars
    /\ pc' = "done"
    /\ UNCHANGED <<workflow, input, visited, queue, steps, result, ctxCanceled, log>>

ExtractNext ==
    \/ Collect
    \/ Prefer
    \/ Assign

ExtractSpec == ExtractInit /\ [][ExtractNext]_vars

\* The values the searched name holds in the response at a depth, and down
\* to a depth.
RECURSIVE OccurrencesAt(_, _, _)
OccurrencesAt(data, key, depth) ==
    IF depth = 0 THEN (IF Has(data, key) THEN {data[key]} ELSE {})
    ELSE UNION {OccurrencesAt(data[k].m, key, depth - 1)
                    : k \in {x \in DOMAIN data : data[x].t = "map"}}

OccurrencesWithin(data, key, depth) ==
    UNION {OccurrencesAt(data, key, d) : d \in 0..depth}

Found == Has(executeVars, input.key)

\* C36: a field of the searched name is found when it sits at the top level
\* of the response or nested at most two objects deep, and is not found when
\* it occurs only deeper than that.
C36_DepthLimited ==
    pc = "done" =>
        (Found <=> OccurrencesWithin(input.data, input.key, MaxSearchDepth) # {})

\* C37: for a fixed response and name findValueInMap returns the same value
\* whatever the order in which the fields of the objects are ranged over,
\* also when the name holds different values in several nested objects.
C37_ExtractionDeterministic ==
    pc \in {"returned", "done"} =>
        \A candidates \in findValueInMapHelper(input.data, input.key, 0, MaxSearchDepth) :
            PreferNumeric(candidates) = result

\* The candidates that count as numeric when the value is chosen.
NumericOccurrences ==
    {Collected(v) : v \in {x \in OccurrencesWithin(input.data, input.key, MaxSearchDepth)
                              : x.t = "json.Number"}}

FirstOfNonNumeric ==
    /\ pc = "done"
    /\ NumericOccurrences = {}
    /\ Len(log) >= 2
    /\ log[1] # log[2]
    /\ result = log[1]

----------------------------------------------------------------------------
\* The integration nodes that were answered with a JSON object and succeeded.
Answered ==
    {i \in Handled("integration") : log[i].out.err = "" /\ log[i].resp.body.t = "map"}

OutputNamesOf(i) ==
    IF Has(MetaOf(i), "outputVariables") /\ MetaOf(i)["outputVariables"].kind = "list"
    THEN {v.s : v \in {x \in SeqToSet(MetaOf(i)["outputVariables"].items) : x.t = "string"}}
    ELSE {}

InResponse(i, name) == OccurrencesWithin(log[i].resp.body.m, name, MaxSearchDepth)

\* C39: when a name of outputVariables is not found in the response, the
\* output gets the value of that name from the input values if it is one of
\* the input variables, and the name is left out of the output otherwise; a
\* name found in the response is never overwritten by the input value.
C39_InputFallback ==
    \A i \in Answered : \A name \in OutputNamesOf(i) :
        LET output == log[i].out.output IN
        IF InResponse(i, name) = {}
        THEN IF name \in InputNamesOf(i)
             THEN Has(output, name) /\ output[name] = log[i].before[name]
             ELSE ~Has(output, name)
        ELSE Has(output, name) /\ output[name] \in {Collected(v) : v \in InResponse(i, name)}

\* The response has the temperature and not the city: the temperature is
\* taken from it and the city from the input values.
C39_Witness ==
    \E i \in Answered :
        /\ OutputNamesOf(i) = {"temperature", "city"}
        /\ "city" \in InputNamesOf(i)
        /\ InResponse(i, "city") = {}
        /\ InResponse(i, "temperature") # {}
        /\ Has(log[i].out.output, "city")
        /\ log[i].out.output["city"] = log[i].before["city"]
        /\ Has(steps[i].output, "temperature")

\* The response has a city other than the input's: the output has the city
\* of the response.
ResponseCityKept ==
    \E i \in Answered :
        /\ "city" \in OutputNamesOf(i) \cap InputNamesOf(i)
        /\ InResponse(i, "city") # {}
        /\ log[i].before["city"] \notin InResponse(i, "city")
        /\ log[i].out.output["city"] \in InResponse(i, "city")

\* The temperature is in the context, is no input variable and is not in the
\* response: the output has no temperature.
ContextValueNotCopied ==
    \E i \in Answered :
        /\ "temperature" \in OutputNamesOf(i) \ InputNamesOf(i)
        /\ Has(log[i].before, "temperature")
        /\ InResponse(i, "temperature") = {}
        /\ ~Has(log[i].out.output, "temperature")

----------------------------------------------------------------------------
(* GetWorkflow: the cache is read first, the database on a miss, and the   *)
(* mapped workflow is written to the cache.  Here log holds what the cache  *)
(* and the database answer and the calls made to them in their order,       *)
(* workflow the mapped workflow and result what GetWorkflow returns.        *)

CacheKey == "workflow:" \o WorkflowId

\* What cache.Get answers: the workflow it holds, a miss, or another error.
CacheReads ==
    {[kind |-> "miss", graph |-> [nodes |-> None, edges |-> None]],
     [kind |-> "error", graph |-> [nodes |-> None, edges |-> None]]}
    \cup {[kind |-> "hit", graph |-> g] : g \in {SampleWorkflow} \cup DegenerateGraphs}

CallTo(op, key, value, minutes) ==
    [op |-> op, key |-> key, value |-> value, minutes |-> minutes]
NoGraph == [nodes |-> None, edges |-> None]

GetterInit ==
    /\ workflow = NoGraph
    /\ input = [id |-> WorkflowId]
    /\ pc = "get"
    /\ executeVars = EmptyMap
    /\ visited = {}
    /\ queue = <<>>
    /\ steps = <<>>
    /\ result = [workflow |-> None, err |-> ""]
    /\ ctxCanceled = FALSE
    /\ log \in {[cache |-> c, db |-> d, setFails |-> f, calls |-> <<>>]
                  : c \in CacheReads, d \in Database, f \in BOOLEAN}

\* cache.Get returns no error: the cached workflow is returned.
CacheHit ==
    /\ pc = "get"
    /\ log.cache.kind = "hit"
    /\ log' = [log EXCEPT !.calls = Append(@, CallTo("cache.Get", CacheKey, NoGraph, 0))]
    /\ result' = [workflow |-> Some(log.cache.graph), err |-> ""]
    /\ pc' = "returned"
    /\ UNCHANGED <<workflow, input, executeVars, visited, queue, steps, ctxCanceled>>

\* cache.Get returns a miss or another error: on to the database.
CacheMiss ==
    /\ pc = "get"
    /\ log.cache.kind # "hit"
    /\ log' = [log EXCEPT !.calls = Append(@, CallTo("cache.Get", CacheKey, NoGraph, 0))]
    /\ pc' = "lookup"
    /\ UNCHANGED <<workflow, input, executeVars, visited, queue, steps, result, ctxCanceled>>

\* GetWorkflowByID returns an error, which is returned as it is.
GetterLookupFails ==
    /\ pc = "lookup"
    /\ log.db.kind \in {"notfound", "error"}
    /\ log' = [log EXCEPT !.calls = Append(@, CallTo("db.GetWorkflowByID", input.id, NoGraph, 0))]
    /\ result' = [workflow |-> None,
                  err |-> IF log.db.kind = "notfound" THEN NotFoundError ELSE FetchError]
    /\ pc' = "returned"
    /\ UNCHANGED <<workflow, input, executeVars, visited, queue, steps, ctxCanceled>>

\* MapDBWorkflowToAPI fails on the id of the row.
GetterMappingFails ==
    /\ pc = "lookup"
    /\ log.db.kind = "row"
    /\ ~log.db.uuid
    /\ log' = [log EXCEPT !.calls = Append(@, CallTo("db.GetWorkflowByID", input.id, NoGraph, 0))]
    /\ result' = [workflow |-> None,
                  err |-> "failed to map workflow: invalid workflow ID format"]
    /\ pc' = "returned"
    /\ UNCHANGED <<workflow, input, executeVars, visited, queue, steps, ctxCanceled>>

\* The row is found and mapped.
GetterMapped ==
    /\ pc = "lookup"
    /\ log.db.kind = "row"
    /\ log.db.uuid
    /\ log' = [log EXCEPT !.calls = Append(@, CallTo("db.GetWorkflowByID", input.id, NoGraph, 0))]
    /\ workflow' = log.db.graph
    /\ pc' = "set"
    /\ UNCHANGED <<input, executeVars, visited, queue, steps, result, ctxCanceled>>

\* cache.Set fails: the request fails with it.
CacheSetFailing ==
    /\ pc = "set"
    /\ log' = [log EXCEPT !.calls = Append(@, CallTo("cache.Set", CacheKey, workflow, 5))]
    /\ result' = IF log.setFails THEN [workflow |-> None, err |-> "failed to cache workflow"]
                 ELSE [workflow |-> Some(workflow), err |-> ""]
    /\ pc' = "returned"
    /\ UNCHANGED <<workflow, input, executeVars, visited, queue, steps, ctxCanceled>>

\* cache.Set for five minutes; the workflow is returned whether it fails or
\* not.
CacheSet ==
    /\ pc = "set"
    /\ log' = [log EXCEPT !.calls = Append(@, CallTo("cache.Set", CacheKey, workflow, 5))]
    /\ result' = [workflow |-> Some(workflow), err |-> ""]
    /\ pc' = "returned"
    /\ UNCHANGED <<workflow, input, executeVars, visited, queue, steps, ctxCanceled>>

GetterNext ==
    \/ CacheHit
    \/ CacheMiss
    \/ GetterLookupFails
    \/ GetterMappingFails
    \/ GetterMapped
    \/ CacheSet

GetterSpec == GetterInit /\ [][GetterNext]_vars

CallsTo(op) == {k \in DOMAIN log.calls : log.calls[k].op = op}
LookupAndMappingSucceed == log.db.kind = "row" /\ log.db.uuid

\* C40: on a cache hit the database is never queried; on a miss or any other
\* error of the cache read it is queried; the cache is written, under the
\* key workflow:<id> for five minutes, only after the lookup and the mapping
\* have both succeeded, and never after one of them failed; and a failed
\* write of the cache does not fail the request.
C40_CacheAside ==
    /\ CallsTo("cache.Get") \subseteq {1}
    /\ log.cache.kind = "hit" =>
          CallsTo("db.GetWorkflowByID") = {} /\ CallsTo("cache.Set") = {}
    /\ (pc = "returned" /\ log.cache.kind # "hit") => CallsTo("db.GetWorkflowByID") = {2}
    /\ \A k \in CallsTo("cache.Set") :
          /\ LookupAndMappingSucceed
          /\ k = 3 /\ CallsTo("db.GetWorkflowByID") = {2}
          /\ log.calls[k] = CallTo("cache.Set", "workflow:" \o input.id, log.db.graph, 5)
    /\ (pc = "returned" /\ log.cache.kind # "hit" /\ LookupAndMappingSucceed) =>
          /\ CallsTo("cache.Set") = {3}
          /\ result = [workflow |-> Some(log.db.graph), err |-> ""]
    /\ (pc = "returned" /\ log.cache.kind # "hit" /\ ~LookupAndMappingSucceed) =>
          result.err # "" /\ result.workflow = None

\* The cache read failed with an error other than a miss, the database had
\* the workflow, the write of the cache failed and the workflow was returned.
C40_Witness ==
    /\ pc = "returned"
    /\ log.cache.kind = "error"
    /\ log.setFails
    /\ Len(log.calls) = 3
    /\ log.calls[3].op = "cache.Set"
    /\ result = [workflow |-> Some(SampleWorkflow), err |-> ""]

\* A hit was returned with the database holding another workflow.
HitWithoutLookup ==
    /\ pc = "returned"
    /\ log.cache.kind = "hit"
    /\ log.db.kind = "row" /\ log.db.graph # log.cache.graph
    /\ Len(log.calls) = 1
    /\ result.workflow = Some(log.cache.graph)

====
